---------------------------- MODULE Spec2Model ----------------------------
(***************************************************************************)
(* A state-machine model of the Twenty CRM MCP server (src/index.js, class *)
(* TwentyCRMServer, second definition starting at line 1268) and of its    *)
(* SchemaLoader (the schema-loader module carried at the end of            *)
(* src/README.md).                                                         *)
(*                                                                         *)
(* The environment owns the two export files and the backend; the server   *)
(* owns the loader state, the registry (objectSchemas, objectAliases,      *)
(* supportedObjects) and the tool list.  JavaScript runs one synchronous   *)
(* segment at a time, so every action below is the code that runs between  *)
(* two awaits of one handler.                                              *)
(***************************************************************************)
EXTENDS Integers, Sequences, FiniteSets, TLC

VARIABLES
    metaFile,         \* rest-metadata-objects.json on disk: [content, sig]
    opsFile,          \* available-operations.json on disk: [content, sig]
    changes,          \* number of file changes made by the environment
    metadata,         \* schemaLoader.metadata
    operations,       \* schemaLoader.operations
    fileStats,        \* schemaLoader.fileStats: [metadata, operations]
    serverUp,         \* "up", or "ctor_threw" when the constructor raised
    objectSchemas,    \* this.objectSchemas  (Map pluralKey -> contract)
    objectAliases,    \* this.objectAliases  (Map alias -> pluralKey)
    supportedObjects, \* this.supportedObjects (array of contracts)
    tools,            \* this.tools (array of tool descriptors)
    calls,            \* the tool-call requests, one record per request slot
    served,           \* number of requests accepted so far
    probe             \* the last direct application of a function: [fn, ...]

vars == <<metaFile, opsFile, changes, metadata, operations, fileStats, serverUp,
          objectSchemas, objectAliases, supportedObjects, tools, calls, served,
          probe>>

-----------------------------------------------------------------------------
(* Bounds of the model *)

\* how many times the environment rewrites an export file
MaxFileChanges == 1

\* how many requests (tools-list or tool-call) the server accepts in a run
MaxRequests == 2

-----------------------------------------------------------------------------
(* Strings.  Names are atomic strings; the few string functions the code   *)
(* applies to them are tabulated on the names that occur.                  *)

\* String.prototype.toLowerCase
ToLowerCase(s) ==
    CASE s = "People" -> "people"
      [] s = "Person" -> "person"
      [] s = "Companies" -> "companies"
      [] s = "Company" -> "company"
      [] s = "Notes" -> "notes"
      [] s = "Note" -> "note"
      [] s = "Tasks" -> "tasks"
      [] s = "Task" -> "task"
      [] s = "Opportunities" -> "opportunities"
      [] s = "Opportunity" -> "opportunity"
      [] s = "noteTargets" -> "notetargets"
      [] s = "noteTarget" -> "notetarget"
      [] s = "NoteTargets" -> "notetargets"
      [] s = "NoteTarget" -> "notetarget"
      [] s = "Note Targets" -> "note targets"
      [] s = "Note Target" -> "note target"
      [] s = "Pets" -> "pets"
      [] s = "Pet" -> "pet"
      [] s = "Contacts" -> "contacts"
      [] s = "Contact" -> "contact"
      [] OTHER -> s

\* String.prototype.trim
Trim(s) ==
    CASE s = " " -> ""
      [] s = " p1" -> "p1"
      [] s = " people " -> "people"
      [] OTHER -> s

\* s.charAt(0).toUpperCase() + s.slice(1)
Capitalize(s) ==
    CASE s = "people" -> "People"
      [] s = "person" -> "Person"
      [] s = "companies" -> "Companies"
      [] s = "company" -> "Company"
      [] s = "notes" -> "Notes"
      [] s = "note" -> "Note"
      [] s = "tasks" -> "Tasks"
      [] s = "task" -> "Task"
      [] s = "opportunities" -> "Opportunities"
      [] s = "opportunity" -> "Opportunity"
      [] s = "noteTargets" -> "NoteTargets"
      [] s = "noteTarget" -> "NoteTarget"
      [] OTHER -> s

\* namePlural.endsWith("s") ? namePlural.slice(0, -1) : namePlural
DropFinalS(s) ==
    CASE s = "notes" -> "note"
      [] s = "tasks" -> "task"
      [] s = "noteTargets" -> "noteTarget"
      [] s = "companies" -> "companie"
      [] s = "opportunities" -> "opportunitie"
      [] s = "pets" -> "pet"
      [] OTHER -> s

\* What a name may start with before a suffix Id or Ids: the stems of the field
\* names that occur, with "" for a name that is nothing but the suffix.
NameStems ==
    {"", "company", "note", "person", "owner", "pointOfContact", "workspaceMember",
     "noteTargets", "people", "tag", "pa", "name", "title",
     "companyId", "paid", "ID", "tagIds", "noteTargetsIds", "peopleIDS",
     "nameId", "nameIds", "companyIdIds", "tagIdsId", "paidIds"}

\* the ways of writing the suffixes in any letter case
IdSuffixes == {"Id", "ID", "id", "iD"}

IdsSuffixes == {"Ids", "IDs", "IdS", "IDS", "ids", "iDs", "idS", "iDS"}

\* /(Id)$/i.test(name)
EndsWithId(s) == \E stem \in NameStems, suffix \in IdSuffixes : s = stem \o suffix

\* /(Ids)$/i.test(name)
EndsWithIds(s) == \E stem \in NameStems, suffix \in IdsSuffixes : s = stem \o suffix

\* `${name}Id`
PlusId(s) == s \o "Id"

\* `${name}Ids`
PlusIds(s) == s \o "Ids"

-----------------------------------------------------------------------------
(* JSON values.  Every value is a tagged record; an object is an ordered   *)
(* sequence of [key, val] entries with distinct keys, as a JavaScript      *)
(* object keeps its keys in insertion order.                               *)

Undefined == [k |-> "undef"]
Null == [k |-> "null"]
Str(s) == [k |-> "str", s |-> s]
Num(n) == [k |-> "num", n |-> n]
Obj(entries) == [k |-> "obj", e |-> entries]
Arr(items) == [k |-> "arr", a |-> items]
Bool(b) == [k |-> "bool", b |-> b]

E(key, val) == [key |-> key, val |-> val]

\* Object.keys(o) as a set
Keys(entries) == {entries[i].key : i \in 1..Len(entries)}

\* key in o
Has(entries, key) == key \in Keys(entries)

\* o[key]
Get(entries, key) ==
    IF Has(entries, key)
    THEN entries[CHOOSE i \in 1..Len(entries) : entries[i].key = key].val
    ELSE Undefined

\* o[key] = val  (an existing key keeps its place)
Put(entries, key, val) ==
    IF Has(entries, key)
    THEN [i \in 1..Len(entries) |->
             IF entries[i].key = key THEN E(key, val) ELSE entries[i]]
    ELSE Append(entries, E(key, val))

\* delete o[key]
Delete(entries, key) == SelectSeq(entries, LAMBDA en : en.key # key)

\* the object as a map, for comparisons that ignore key order
AsMap(entries) == [key \in Keys(entries) |-> Get(entries, key)]

\* JavaScript truthiness of a value
Truthy(v) ==
    CASE v.k = "undef" -> FALSE
      [] v.k = "null" -> FALSE
      [] v.k = "str" -> v.s # ""
      [] v.k = "num" -> v.n # 0
      [] v.k = "bool" -> v.b
      [] OTHER -> TRUE

-----------------------------------------------------------------------------
(* The metadata export: the objects and fields of rest-metadata-objects.json *)

\* one entry of object.fields; rel is field.relation.type, "NONE" when the
\* field has no relation
Field(name, type, isSystem, isNullable, hasDefault, rel) ==
    [name |-> name, type |-> type, isActive |-> TRUE, isSystem |-> isSystem,
     isNullable |-> isNullable, hasDefault |-> hasDefault, rel |-> rel]

\* one entry of metadata.data.objects
Object(nameSingular, namePlural, labelSingular, labelPlural, isActive, fields) ==
    [nameSingular |-> nameSingular, namePlural |-> namePlural,
     labelSingular |-> labelSingular, labelPlural |-> labelPlural,
     isActive |-> isActive, isSystem |-> FALSE, fields |-> fields]

PeopleObject ==
    Object("person", "people", "Person", "People", TRUE,
      << Field("name", "FULL_NAME", FALSE, TRUE, FALSE, "NONE"),
         Field("company", "RELATION", FALSE, TRUE, FALSE, "MANY_TO_ONE"),
         Field("noteTargets", "RELATION", FALSE, TRUE, FALSE, "ONE_TO_MANY"),
         Field("linkedinLink", "LINKS", FALSE, TRUE, FALSE, "NONE"),
         Field("position", "POSITION", FALSE, FALSE, TRUE, "NONE"),
         Field("createdAt", "DATE_TIME", FALSE, FALSE, TRUE, "NONE") >>)

CompaniesObject ==
    Object("company", "companies", "Company", "Companies", TRUE,
      << Field("name", "TEXT", FALSE, FALSE, FALSE, "NONE"),
         Field("domainName", "LINKS", FALSE, TRUE, FALSE, "NONE"),
         Field("people", "RELATION", FALSE, TRUE, FALSE, "ONE_TO_MANY") >>)

NotesObject ==
    Object("note", "notes", "Note", "Notes", TRUE,
      << Field("title", "TEXT", FALSE, TRUE, FALSE, "NONE"),
         Field("noteTargets", "RELATION", FALSE, TRUE, FALSE, "ONE_TO_MANY"),
         Field("position", "POSITION", FALSE, FALSE, TRUE, "NONE") >>)

TasksObject ==
    Object("task", "tasks", "Task", "Tasks", TRUE,
      << Field("title", "TEXT", FALSE, TRUE, FALSE, "NONE") >>)

OpportunitiesObject ==
    Object("opportunity", "opportunities", "Opportunity", "Opportunities", TRUE,
      << Field("name", "TEXT", FALSE, FALSE, FALSE, "NONE"),
         Field("pointOfContact", "RELATION", FALSE, TRUE, FALSE, "MANY_TO_ONE") >>)

NoteTargetsObject ==
    Object("noteTarget", "noteTargets", "Note Target", "Note Targets", TRUE,
      << Field("note", "RELATION", FALSE, TRUE, FALSE, "MANY_TO_ONE"),
         Field("person", "RELATION", FALSE, TRUE, FALSE, "MANY_TO_ONE"),
         Field("company", "RELATION", FALSE, TRUE, FALSE, "MANY_TO_ONE") >>)

\* a custom object; one of its relations is itself named id
PetsObject ==
    Object("pet", "pets", "Pet", "Pets", TRUE,
      << Field("name", "TEXT", FALSE, FALSE, FALSE, "NONE"),
         Field("id", "RELATION", FALSE, TRUE, FALSE, "MANY_TO_ONE"),
         Field("owner", "RELATION", FALSE, TRUE, FALSE, "MANY_TO_ONE"),
         Field("searchVector", "TS_VECTOR", TRUE, TRUE, FALSE, "NONE") >>)

\* a custom object with a relation whose name already ends in Id, a
\* many-to-many relation, a relation of a type the loader does not know, and a
\* LINKS field
DealsObject ==
    Object("deal", "deals", "Deal", "Deals", TRUE,
      << Field("name", "TEXT", FALSE, FALSE, FALSE, "NONE"),
         Field("ownerId", "RELATION", FALSE, TRUE, FALSE, "MANY_TO_ONE"),
         Field("tags", "RELATION", FALSE, TRUE, FALSE, "MANY_TO_MANY"),
         Field("legacy", "RELATION", FALSE, TRUE, FALSE, "UNKNOWN"),
         Field("website", "LINKS", FALSE, TRUE, FALSE, "NONE") >>)

\* a custom object all of whose fields are managed by the backend
EventsObject ==
    Object("event", "events", "Event", "Events", TRUE,
      << Field("createdAt", "DATE_TIME", FALSE, FALSE, FALSE, "NONE"),
         Field("updatedAt", "DATE_TIME", FALSE, FALSE, TRUE, "NONE"),
         Field("position", "POSITION", FALSE, FALSE, TRUE, "NONE") >>)

\* the exports the metadata file may hold, by name
ExportIds == {"full", "partial", "customOnly"}

\* metadata.data.objects of an export
ExportObjects(id) ==
    CASE id = "full" -> << PeopleObject, CompaniesObject, NotesObject, TasksObject,
                           OpportunitiesObject, NoteTargetsObject, PetsObject,
                           DealsObject, EventsObject >>
      [] id = "partial" -> << PeopleObject, NotesObject, NoteTargetsObject >>
      [] id = "customOnly" -> << PetsObject >>
      [] OTHER -> << >>

\* What the metadata file may be: missing or unreadable (statSync throws), not
\* JSON (JSON.parse throws), the JSON document null, JSON without data.objects,
\* or an export.
MetaContents == {"missing", "badjson", "null", "noobjects"} \cup ExportIds

\* What the operations file may be: absent, not JSON, or a catalog.
OpsContents == {"absent", "badjson", "ok"}

\* JSON.parse(readFileSync(metadataPath)) for a content that parses: the value
\* held in schemaLoader.metadata ("none" is JavaScript null)
ParsedMetadata(content) == IF content = "null" THEN "none" ELSE content

-----------------------------------------------------------------------------
(* SchemaLoader *)

\* SchemaLoader.loadSchemas.  Every call in the program either passes force or
\* runs on the empty fileStats of a new loader, so both files are re-read.
\* The result is [ok, metadata, operations, fileStats].
loadSchemas(md, ops, stats, mf, of) ==
    IF mf.content = "missing" \/ mf.content = "badjson"
    THEN [ok |-> FALSE, metadata |-> md, operations |-> ops, fileStats |-> stats]
    ELSE LET md1 == ParsedMetadata(mf.content)
             st1 == [stats EXCEPT !.metadata = mf.sig]
         IN  CASE of.content = "absent" ->
                    [ok |-> TRUE, metadata |-> md1, operations |-> "none",
                     fileStats |-> [st1 EXCEPT !.operations = 0]]
               [] of.content = "badjson" ->
                    [ok |-> FALSE, metadata |-> md1, operations |-> ops,
                     fileStats |-> st1]
               [] OTHER ->
                    [ok |-> TRUE, metadata |-> md1, operations |-> "ok",
                     fileStats |-> [st1 EXCEPT !.operations = of.sig]]

\* hasSchemaChanged comparing the metadata file alone
hasSchemaChangedMetadataOnly(md, stats, mf, of) ==
    IF mf.content = "missing"
    THEN md # "none"
    ELSE md = "none" \/ stats.metadata = 0 \/ mf.sig # stats.metadata

\* SchemaLoader.hasSchemaChanged
hasSchemaChanged(md, stats, mf, of) ==
    IF mf.content = "missing"
    THEN md # "none"
    ELSE IF md = "none" \/ stats.metadata = 0 THEN TRUE
    ELSE IF mf.sig # stats.metadata THEN TRUE
    ELSE IF of.content = "absent" THEN stats.operations # 0
    ELSE IF stats.operations = 0 THEN TRUE
    ELSE of.sig # stats.operations

\* null, where the code returns null instead of an object or a contract
Nothing == [none |-> TRUE]

\* SchemaLoader.getObjectByName.  The caller has checked that
\* metadata.data.objects exists.
getObjectByName(md, name) ==
    LET find(objs) ==
          LET hit == {i \in 1..Len(objs) :
                        /\ objs[i].isActive
                        /\ ToLowerCase(name) \in {ToLowerCase(objs[i].namePlural),
                                                  ToLowerCase(objs[i].nameSingular)}}
          IN  IF hit = {} THEN Nothing
              ELSE objs[CHOOSE i \in hit : \A j \in hit : i <= j]
    IN  IF md = "none" \/ name = "" THEN Nothing ELSE find(ExportObjects(md))

\* SchemaLoader.getObjectFields, given the object
getObjectFields(object) ==
    SelectSeq(object.fields, LAMBDA f :
        /\ f.isActive
        /\ ~f.isSystem
        /\ (f.type = "RELATION" => f.rel \in {"MANY_TO_ONE", "ONE_TO_ONE"}))

\* SchemaLoader.mapFieldType followed by the switch of buildFieldProperty: the
\* JSON-schema type of the property
buildFieldProperty(field) ==
    CASE field.type \in {"FULL_NAME", "ADDRESS", "CURRENCY", "LINKS", "ACTOR",
                         "RAW_JSON"} -> "object"
      [] field.type \in {"EMAILS", "PHONES", "MULTI_SELECT", "ARRAY"} -> "array"
      [] field.type \in {"NUMBER", "NUMERIC", "POSITION"} -> "number"
      [] field.type = "BOOLEAN" -> "boolean"
      [] field.type = "RELATION" ->
            IF field.rel \in {"ONE_TO_MANY", "MANY_TO_MANY"} THEN "array" ELSE "string"
      [] OTHER -> "string"

\* getRelationAlias giving a relation to many the suffix of a relation to one
getRelationAliasWithIdForMany(field) ==
    IF field.rel \in {"MANY_TO_ONE", "ONE_TO_ONE", "ONE_TO_MANY", "MANY_TO_MANY"}
    THEN IF EndsWithId(field.name) THEN field.name ELSE PlusId(field.name)
    ELSE ""

\* SchemaLoader.getRelationAlias; "" is null
getRelationAlias(field) ==
    IF field.rel = "NONE" THEN ""
    ELSE IF field.rel \in {"MANY_TO_ONE", "ONE_TO_ONE"}
         THEN IF EndsWithId(field.name) THEN field.name ELSE PlusId(field.name)
    ELSE IF field.rel \in {"ONE_TO_MANY", "MANY_TO_MANY"}
         THEN IF EndsWithIds(field.name) THEN field.name ELSE PlusIds(field.name)
    ELSE ""

\* a property of a contract: its JSON-schema type, and whether it was declared
\* by a field or injected for a relation alias
Property(type, origin) == [type |-> type, origin |-> origin]

\* the forEach of generateToolSchema over fields[i..]: acc is
\* [properties, required, relationMetadata]
RECURSIVE CompileFields(_, _, _)
CompileFields(fields, i, acc) ==
    LET isRel(field) == field.type = "RELATION" /\ field.rel # "NONE"
        withAlias(field, alias, p1) ==
            IF isRel(field) /\ alias # "" /\ ~Has(p1, alias)
            THEN Put(p1, alias,
                     Property(IF field.rel \in {"MANY_TO_ONE", "ONE_TO_ONE"}
                              THEN "string" ELSE "array", "alias"))
            ELSE p1
        step(field) ==
            [properties |->
                withAlias(field, getRelationAlias(field),
                          Put(acc.properties, field.name,
                              Property(buildFieldProperty(field), "field"))),
             required |->
                IF ~field.isNullable /\ ~field.hasDefault
                THEN Append(acc.required, field.name)
                ELSE acc.required,
             relationMetadata |->
                IF isRel(field)
                THEN Append(acc.relationMetadata,
                            [name |-> field.name, alias |-> getRelationAlias(field),
                             relationType |-> field.rel])
                ELSE acc.relationMetadata]
    IN  IF i > Len(fields) THEN acc
        ELSE CompileFields(fields, i + 1, step(fields[i]))

\* generateToolSchema without the alias properties: properties holds the
\* declared fields only
compileObjectWithoutAliases(object) ==
    LET fields == getObjectFields(object)
        c == CompileFields(fields, 1,
                 [properties |-> << >>, required |-> << >>,
                  relationMetadata |-> << >>])
    IN  [nameSingular |-> object.nameSingular,
         namePlural |-> object.namePlural,
         labelSingular |-> object.labelSingular,
         labelPlural |-> object.labelPlural,
         properties |-> SelectSeq(c.properties, LAMBDA en : en.val.origin = "field"),
         required |-> c.required,
         fieldMetadata |-> fields,
         relationMetadata |-> c.relationMetadata]

\* SchemaLoader.generateToolSchema, from the object that getObjectByName found
compileObject(object) ==
    LET schema(fields, c) ==
            [nameSingular |-> object.nameSingular,
             namePlural |-> object.namePlural,
             labelSingular |-> object.labelSingular,
             labelPlural |-> object.labelPlural,
             properties |-> c.properties,
             required |-> c.required,
             fieldMetadata |-> fields,
             relationMetadata |-> c.relationMetadata]
        compile(fields) ==
            schema(fields,
                   CompileFields(fields, 1,
                       [properties |-> << >>, required |-> << >>,
                        relationMetadata |-> << >>]))
    IN  compile(getObjectFields(object))

\* SchemaLoader.generateToolSchema.  The caller has checked that
\* metadata.data.objects exists.
generateToolSchema(md, name) ==
    LET generate(object) ==
            IF object = Nothing THEN Nothing ELSE compileObject(object)
    IN  generate(getObjectByName(md, name))

\* SchemaLoader.getCoreObjects
getCoreObjects == << "people", "companies", "notes", "tasks", "opportunities" >>

\* whether reading metadata.data.objects raises a TypeError: the metadata is a
\* JSON value without the data.objects list
LacksObjectList(md) == md = "noobjects"

-----------------------------------------------------------------------------
(* The registry: [schemas, aliases, supported] stands for objectSchemas,   *)
(* objectAliases and supportedObjects.                                     *)

EmptyRegistry == [schemas |-> << >>, aliases |-> << >>, supported |-> << >>]

\* Map.set(key, val) on a map held as a function
MapSet(map, key, val) == (key :> val) @@ map

\* registerObjectSchema without its test this.objectSchemas.has(pluralKey)
registerObjectSchemaOverwriting(reg, schema) ==
    LET names == {schema.namePlural, schema.nameSingular}
                     \cup ({schema.labelSingular, schema.labelPlural} \ {""})
        register(pluralKey) ==
            [schemas |-> MapSet(reg.schemas, pluralKey, schema),
             aliases |-> [a \in {ToLowerCase(n) : n \in names} |-> pluralKey]
                             @@ reg.aliases,
             supported |-> Append(reg.supported, schema)]
    IN  IF schema = Nothing \/ schema.namePlural = "" \/ schema.nameSingular = "" THEN reg
        ELSE register(ToLowerCase(schema.namePlural))

\* TwentyCRMServer.registerObjectSchema
registerObjectSchema(reg, schema) ==
    LET \* the four aliases.set calls, which all store the plural key
        names == {schema.namePlural, schema.nameSingular}
                     \cup ({schema.labelSingular, schema.labelPlural} \ {""})
        register(pluralKey) ==
            IF pluralKey \in DOMAIN reg.schemas THEN reg
            ELSE [schemas |-> MapSet(reg.schemas, pluralKey, schema),
                  aliases |-> [a \in {ToLowerCase(n) : n \in names} |-> pluralKey]
                                  @@ reg.aliases,
                  supported |-> Append(reg.supported, schema)]
    IN  IF schema = Nothing \/ schema.namePlural = "" \/ schema.nameSingular = "" THEN reg
        ELSE register(ToLowerCase(schema.namePlural))

\* TwentyCRMServer.buildObjectRegistry, from core object i on; the caller has
\* checked that metadata.data.objects exists
RECURSIVE buildObjectRegistry(_, _, _)
buildObjectRegistry(md, reg, i) ==
    LET register(schema) ==
            IF schema = Nothing THEN reg ELSE registerObjectSchema(reg, schema)
    IN  IF i > Len(getCoreObjects) THEN reg
        ELSE buildObjectRegistry(md, register(generateToolSchema(md, getCoreObjects[i])),
                                 i + 1)

\* getFallbackSingular without its table of irregular plurals
getFallbackSingularBySuffix(namePlural) == DropFinalS(namePlural)

\* TwentyCRMServer.getFallbackSingular
getFallbackSingular(namePlural) ==
    CASE namePlural = "people" -> "person"
      [] namePlural = "companies" -> "company"
      [] namePlural = "opportunities" -> "opportunity"
      [] OTHER -> DropFinalS(namePlural)

\* TwentyCRMServer.getFallbackDefinition: [properties, required, relationMetadata]
getFallbackDefinition(namePlural) ==
    IF namePlural = "noteTargets"
    THEN [properties |-> << E("noteId", [type |-> "string", origin |-> "field"]),
                            E("personId", [type |-> "string", origin |-> "field"]),
                            E("companyId", [type |-> "string", origin |-> "field"]) >>,
          required |-> << >>,
          relationMetadata |->
            << [name |-> "note", alias |-> "noteId", relationType |-> "MANY_TO_ONE"],
               [name |-> "person", alias |-> "personId", relationType |-> "MANY_TO_ONE"],
               [name |-> "company", alias |-> "companyId", relationType |-> "MANY_TO_ONE"] >>]
    ELSE [properties |-> << >>, required |-> << >>, relationMetadata |-> << >>]

\* the contract buildFallbackRegistry registers for one name
FallbackSchema(namePlural) ==
    LET schema(nameSingular, fallback) ==
            [nameSingular |-> nameSingular,
             namePlural |-> namePlural,
             labelSingular |-> Capitalize(nameSingular),
             labelPlural |-> Capitalize(namePlural),
             properties |-> fallback.properties,
             required |-> fallback.required,
             fieldMetadata |-> << >>,
             relationMetadata |-> fallback.relationMetadata]
    IN  schema(getFallbackSingular(namePlural), getFallbackDefinition(namePlural))

\* TwentyCRMServer.buildFallbackRegistry, from core object i on
RECURSIVE buildFallbackRegistry(_, _)
buildFallbackRegistry(reg, i) ==
    IF i > Len(getCoreObjects) THEN reg
    ELSE buildFallbackRegistry(
             registerObjectSchema(reg, FallbackSchema(getCoreObjects[i])), i + 1)

-----------------------------------------------------------------------------
(* Tool synthesis.  A tool name is the pair (text before the first "_",    *)
(* text after it): "create_person" is <<"create", "person">>.              *)

Tool(name, properties, required, nested) ==
    [name |-> name, properties |-> properties, required |-> required,
     nested |-> nested]

readOnlyNames == {"createdAt", "updatedAt", "deletedAt", "createdBy", "updatedBy",
                  "searchVector", "position"}

\* TwentyCRMServer.buildWritableProperties: the entries of schema.properties kept
buildWritableProperties(schema) ==
    LET isPosition(name) ==
            \E i \in 1..Len(schema.fieldMetadata) :
                /\ schema.fieldMetadata[i].name = name
                /\ schema.fieldMetadata[i].type = "POSITION"
                /\ \A j \in (i + 1)..Len(schema.fieldMetadata) :
                       schema.fieldMetadata[j].name # name
        writable == SelectSeq(schema.properties, LAMBDA en :
                        en.key \notin readOnlyNames /\ ~isPosition(en.key))
    IN  IF Len(writable) = 0 THEN schema.properties ELSE writable

\* the five tools generateToolsFromSchema pushes for one contract
ToolsOfSchema(schema) ==
    LET five(createProperties) ==
          << Tool(<<"create", schema.nameSingular>>, createProperties,
                  SelectSeq(schema.required, LAMBDA f : f \in createProperties), {}),
             Tool(<<"get", schema.nameSingular>>, {"id"}, <<"id">>, {}),
             Tool(<<"update", schema.nameSingular>>, {"id"} \cup createProperties,
                  <<"id">>, {}),
             Tool(<<"list", schema.namePlural>>, {"limit", "offset", "search", "filters"},
                  << >>, createProperties),
             Tool(<<"delete", schema.nameSingular>>, {"id"}, <<"id">>, {}) >>
    IN  five(Keys(buildWritableProperties(schema)))

\* TwentyCRMServer.buildGlobalTools
buildGlobalTools(reg) ==
    LET fixed ==
          << Tool(<<"get", "metadata_objects">>, {}, << >>, {}),
             Tool(<<"get", "object_metadata">>, {"objectName"}, <<"objectName">>, {}),
             Tool(<<"get", "local_object_schema">>, {"objectName"}, <<"objectName">>, {}),
             Tool(<<"get", "available_operations">>, {"type", "nameContains", "limit"},
                  << >>, {}),
             Tool(<<"search", "records">>, {"query", "objectTypes", "limit"},
                  <<"query">>, {}) >>
    IN  IF "notes" \in DOMAIN reg.schemas /\ "notetargets" \in DOMAIN reg.schemas
        THEN Append(fixed,
                 Tool(<<"create", "note_for_person">>,
                      {"personId", "note", "companyId", "targets"},
                      <<"personId", "note">>,
                      Keys(reg.schemas["notes"].properties)))
        ELSE fixed

\* the loop of generateToolsFromSchema, from supported object i on
RECURSIVE CrudTools(_, _)
CrudTools(supported, i) ==
    IF i > Len(supported) THEN << >>
    ELSE ToolsOfSchema(supported[i]) \o CrudTools(supported, i + 1)

\* TwentyCRMServer.generateToolsFromSchema
generateToolsFromSchema(reg) == CrudTools(reg.supported, 1) \o buildGlobalTools(reg)

\* TwentyCRMServer.rebuildRegistry: [threw, reg, tools].  When compilation
\* raises, the maps are already cleared and this.tools keeps its old value.
rebuildRegistry(md, oldTools) ==
    LET rebuilt(reg) ==
            [threw |-> FALSE, reg |-> reg, tools |-> generateToolsFromSchema(reg)]
        orFallback(reg) ==
            IF md = "none" \/ Len(reg.supported) = 0
            THEN buildFallbackRegistry(reg, 1)
            ELSE reg
    IN  IF md # "none" /\ LacksObjectList(md)
        THEN [threw |-> TRUE, reg |-> EmptyRegistry, tools |-> oldTools]
        ELSE rebuilt(orFallback(IF md # "none"
                                THEN buildObjectRegistry(md, EmptyRegistry, 1)
                                ELSE EmptyRegistry))

\* TwentyCRMServer.resolveObject: the plural key, "" when it resolves nothing
resolveObject(reg, objectName) ==
    LET resolve(normalized) ==
            IF normalized \notin DOMAIN reg.aliases THEN ""
            ELSE IF reg.aliases[normalized] \notin DOMAIN reg.schemas THEN ""
            ELSE reg.aliases[normalized]
    IN  IF objectName = "" THEN "" ELSE resolve(ToLowerCase(Trim(objectName)))

-----------------------------------------------------------------------------
(* Payload sanitization *)

\* TwentyCRMServer.getRelationCardinality; "" is null
getRelationCardinality(relationType) ==
    IF relationType \in {"MANY_TO_ONE", "ONE_TO_ONE"} THEN "single"
    ELSE IF relationType \in {"ONE_TO_MANY", "MANY_TO_MANY"} THEN "multiple"
    ELSE ""

\* extractSingleRelationId returning value.id and value.value untrimmed
extractSingleRelationIdUntrimmed(value) ==
    LET trimmed(v) == IF v.k = "str" THEN Trim(v.s) ELSE ""
        first(id, val) ==
            IF trimmed(id) # "" THEN id ELSE IF trimmed(val) # "" THEN val ELSE Undefined
    IN  CASE value.k = "null" -> Null
          [] value.k = "str" -> IF trimmed(value) # "" THEN Str(trimmed(value))
                                ELSE Undefined
          [] value.k = "num" -> Str(ToString(value.n))
          [] value.k = "obj" -> first(Get(value.e, "id"), Get(value.e, "value"))
          [] OTHER -> Undefined

\* TwentyCRMServer.extractSingleRelationId: Null, Str(id) or Undefined
extractSingleRelationId(value) ==
    LET trimmed(v) == IF v.k = "str" THEN Trim(v.s) ELSE ""
        first(id, val) ==
            IF id # "" THEN Str(id) ELSE IF val # "" THEN Str(val) ELSE Undefined
    IN  CASE value.k = "null" -> Null
          [] value.k = "str" -> first(trimmed(value), "")
          [] value.k = "num" -> Str(ToString(value.n))
          [] value.k = "obj" -> first(trimmed(Get(value.e, "id")),
                                      trimmed(Get(value.e, "value")))
          [] OTHER -> Undefined

\* Array.from(new Set(ids)): the first occurrence of each element, in order
Unique(seq) ==
    LET keep == {i \in 1..Len(seq) : \A j \in 1..(i - 1) : seq[j] # seq[i]}
        n == Cardinality(keep)
        nth(r) == CHOOSE i \in keep : Cardinality({j \in keep : j <= i}) = r
    IN  [r \in 1..n |-> seq[nth(r)]]

\* extractMultipleRelationIds returning ids instead of Array.from(new Set(ids))
extractMultipleRelationIdsKeepingDuplicates(value) ==
    LET idsOf == IF value.k = "obj" THEN Get(value.e, "ids") ELSE Undefined
        candidates ==
            CASE value.k = "arr" -> value.a
              [] value.k \in {"str", "num"} -> << value >>
              [] value.k = "obj" /\ idsOf.k = "arr" -> idsOf.a
              [] value.k = "obj" /\ idsOf.k # "arr" /\ Get(value.e, "id").k # "undef" ->
                    << Get(value.e, "id") >>
              [] OTHER -> << >>
        ids == SelectSeq([i \in 1..Len(candidates) |->
                             extractSingleRelationId(candidates[i])],
                         LAMBDA s : s.k = "str" /\ s.s # "")
    IN  IF value.k = "null" THEN Arr(<< >>)
        ELSE IF Len(ids) = 0
             THEN IF (value.k = "arr" /\ Len(value.a) = 0)
                       \/ (value.k = "obj" /\ idsOf.k = "arr" /\ Len(idsOf.a) = 0)
                  THEN Arr(<< >>) ELSE Undefined
        ELSE Arr(ids)

\* TwentyCRMServer.extractMultipleRelationIds: Arr of ids, or Undefined
extractMultipleRelationIds(value) ==
    LET explicitClear(idsOf) ==
            \/ value.k = "null"
            \/ (value.k = "arr" /\ Len(value.a) = 0)
            \/ (value.k = "obj" /\ idsOf.k = "arr" /\ Len(idsOf.a) = 0)
        candidates(idsOf) ==
            CASE value.k = "arr" -> value.a
              [] value.k \in {"str", "num"} -> << value >>
              [] value.k = "obj" /\ idsOf.k = "arr" -> idsOf.a
              [] value.k = "obj" /\ idsOf.k # "arr" /\ Get(value.e, "id").k # "undef" ->
                    << Get(value.e, "id") >>
              [] OTHER -> << >>
        idsIn(cands) ==
            SelectSeq([i \in 1..Len(cands) |-> extractSingleRelationId(cands[i])],
                      LAMBDA s : s.k = "str" /\ s.s # "")
        result(idsOf, ids) ==
            IF value.k = "null" THEN Arr(<< >>)
            ELSE IF Len(ids) = 0
                 THEN IF explicitClear(idsOf) THEN Arr(<< >>) ELSE Undefined
            ELSE Arr(Unique(ids))
        extract(idsOf) == result(idsOf, idsIn(candidates(idsOf)))
    IN  extract(IF value.k = "obj" THEN Get(value.e, "ids") ELSE Undefined)

\* normalizeRelationValue keyed by the relation's field name
normalizeRelationValueUnderName(value, relation) ==
    LET entries(got) ==
            IF got.k = "undef" THEN << >> ELSE << E(relation.name, got) >>
    IN  entries(IF getRelationCardinality(relation.relationType) = "single"
                THEN extractSingleRelationId(value)
                ELSE extractMultipleRelationIds(value))

\* TwentyCRMServer.normalizeRelationValue: the entries merged into the output
normalizeRelationValue(value, relation) ==
    LET entries(alias, got) ==
            IF alias = "" \/ got.k = "undef" THEN << >> ELSE << E(alias, got) >>
    IN  entries(IF relation.alias # "" THEN relation.alias ELSE relation.name,
                IF getRelationCardinality(relation.relationType) = "single"
                THEN extractSingleRelationId(value)
                ELSE extractMultipleRelationIds(value))

\* TwentyCRMServer.normalizeRelationAliasValue
normalizeRelationAliasValue(value, relation) ==
    IF getRelationCardinality(relation.relationType) = "single"
    THEN extractSingleRelationId(value)
    ELSE extractMultipleRelationIds(value)

\* normalizeLinksValue without value.trim()
normalizeLinksValueUntrimmed(value) ==
    CASE value.k = "str" ->
            Obj(<< E("primaryLinkUrl", value),
                   E("primaryLinkLabel", Str("")),
                   E("secondaryLinks", Null) >>)
      [] OTHER -> value

\* TwentyCRMServer.normalizeLinksValue
normalizeLinksValue(value) ==
    CASE value.k \in {"null", "undef"} -> value
      [] value.k = "obj" /\ (Keys(value.e) \cap
                               {"primaryLinkUrl", "primaryLinkLabel", "secondaryLinks"}) # {}
            -> value
      [] value.k = "str" ->
            Obj(<< E("primaryLinkUrl", Str(Trim(value.s))),
                   E("primaryLinkLabel", Str("")),
                   E("secondaryLinks", Null) >>)
      [] OTHER -> value

\* TwentyCRMServer.getRelationInfo: byName.get(key) and byAlias.get(key), the
\* last relation that set the key; Nothing is undefined
RelationByName(schema, key) ==
    LET last(rm, hit) ==
            IF hit = {} THEN Nothing ELSE rm[CHOOSE i \in hit : \A j \in hit : j <= i]
    IN  last(schema.relationMetadata,
             {i \in 1..Len(schema.relationMetadata) :
                 schema.relationMetadata[i].name = key})

RelationByAlias(schema, key) ==
    LET last(rm, hit) ==
            IF hit = {} THEN Nothing ELSE rm[CHOOSE i \in hit : \A j \in hit : j <= i]
    IN  last(schema.relationMetadata,
             {i \in 1..Len(schema.relationMetadata) :
                 /\ schema.relationMetadata[i].alias # ""
                 /\ schema.relationMetadata[i].alias = key})

\* TwentyCRMServer.getLinksFieldNames
getLinksFieldNames(schema) ==
    {schema.fieldMetadata[i].name : i \in
        {j \in 1..Len(schema.fieldMetadata) : schema.fieldMetadata[j].type = "LINKS"}}

\* Object.assign(target, source)
RECURSIVE Assign(_, _, _)
Assign(target, source, i) ==
    IF i > Len(source) THEN target
    ELSE Assign(Put(target, source[i].key, source[i].val), source, i + 1)

\* the for loop of sanitizePayload over the entries of the payload, from i on
RECURSIVE SanitizeEntries(_, _, _, _)
SanitizeEntries(entries, schema, i, sanitized) ==
    LET putDefined(key, normalized) ==
            IF normalized.k # "undef" THEN Put(sanitized, key, normalized)
            ELSE sanitized
        next(key, value, byName, byAlias) ==
            IF value.k = "undef" THEN sanitized
            ELSE IF byName # Nothing
                 THEN Assign(sanitized, normalizeRelationValue(value, byName), 1)
            ELSE IF byAlias # Nothing
                 THEN putDefined(key, normalizeRelationAliasValue(value, byAlias))
            ELSE IF key \in getLinksFieldNames(schema)
                 THEN Put(sanitized, key, normalizeLinksValue(value))
            ELSE Put(sanitized, key, value)
    IN  IF i > Len(entries) THEN sanitized
        ELSE SanitizeEntries(entries, schema, i + 1,
                 next(entries[i].key, entries[i].val,
                      RelationByName(schema, entries[i].key),
                      RelationByAlias(schema, entries[i].key)))

\* Object.entries(payload) of a payload that is an object or an array
EntriesOf(payload) ==
    IF payload.k = "arr"
    THEN [i \in 1..Len(payload.a) |-> E(ToString(i - 1), payload.a[i])]
    ELSE payload.e

\* sanitizePayload without its final delete of the id key
sanitizePayloadKeepingId(payload, schema) ==
    IF payload.k \notin {"obj", "arr"} THEN << >>
    ELSE SanitizeEntries(EntriesOf(payload), schema, 1, << >>)

\* TwentyCRMServer.sanitizePayload: the entries of the sanitized object
sanitizePayload(payload, schema) ==
    LET withoutId(sanitized) ==
            IF Has(sanitized, "id") THEN Delete(sanitized, "id") ELSE sanitized
    IN  IF payload.k \notin {"obj", "arr"} THEN << >>
        ELSE withoutId(SanitizeEntries(EntriesOf(payload), schema, 1, << >>))

-----------------------------------------------------------------------------
(* Backend requests, errors and tool results *)

\* a request handed to fetch; body is Nothing when no body is sent
Request(endpoint, method, body) ==
    [endpoint |-> endpoint, method |-> method, body |-> body]

\* the replies of the backend: a 2xx answer with a JSON value, an answer with
\* another status, or no answer (fetch rejects)
OkReply(value) == [kind |-> "ok", value |-> value]
StatusReply(status) == [kind |-> "status", status |-> status]
NetworkFailure == [kind |-> "network"]

\* new Error(message)
Error(msg) == [cls |-> "Error", msg |-> msg]

\* new HttpError(`HTTP ${status}`, details)
HttpError(status, request) ==
    [cls |-> "HttpError", msg |-> "HTTP " \o ToString(status), status |-> status,
     endpoint |-> request.endpoint, method |-> request.method]

\* makeRequest with a catch clause that returns null instead of throwing
makeRequestSwallowingErrors(request, reply) ==
    [ok |-> TRUE, value |-> IF reply.kind = "ok" THEN reply.value ELSE Null]

\* TwentyCRMServer.makeRequest, from the reply on: [ok, value] or [ok, error].
\* The HttpError of a non-2xx answer is thrown inside the try block whose catch
\* clause wraps whatever it catches in a plain Error.
makeRequest(request, reply) ==
    IF reply.kind = "ok"
    THEN [ok |-> TRUE, value |-> reply.value]
    ELSE LET caught == IF reply.kind = "status"
                       THEN HttpError(reply.status, request)
                       ELSE Error("fetch failed")
         IN  [ok |-> FALSE, error |-> Error("API request failed: " \o caught.msg)]

\* TwentyCRMServer.getErrorHint; "" is null
getErrorHint(status) ==
    CASE status = 400 -> "Check the payload"
      [] status \in {401, 403} -> "Verify TWENTY_API_KEY"
      [] status = 404 -> "Resource not found"
      [] status = 409 -> "Conflict detected"
      [] status = 422 -> "Validation failed"
      [] status = 429 -> "Rate limit hit"
      [] status \in {500, 502, 503} -> "Server error"
      [] OTHER -> ""

\* TwentyCRMServer.buildContent: the returned content, as its message and the
\* value serialized after it (Nothing when there is none)
buildContent(message, data) == [kind |-> "ok", message |-> message, data |-> data]

\* TwentyCRMServer.buildErrorContent
buildErrorContent(error) ==
    IF error.cls = "HttpError"
    THEN LET hint == getErrorHint(error.status)
             base == << E("status", Num(error.status)),
                        E("endpoint", Str(error.endpoint)),
                        E("method", Str(error.method)),
                        E("body", Null),
                        E("headers", Obj(<< >>)) >>
         IN  [kind |-> "http",
              message |-> "HTTP error " \o ToString(error.status) \o " on "
                              \o error.method \o " " \o error.endpoint,
              data |-> Obj(IF hint # "" THEN Append(base, E("hint", Str(hint)))
                           ELSE base)]
    ELSE [kind |-> "error", message |-> "Error: " \o error.msg, data |-> Nothing]

\* the request ended with an exception that left the call handler
Threw == [kind |-> "threw", message |-> "", data |-> Nothing]

\* String(value) for an identifier placed in an endpoint or a dedupe key
ToStr(v) ==
    CASE v.k = "str" -> v.s
      [] v.k = "num" -> ToString(v.n)
      [] v.k = "null" -> "null"
      [] v.k = "undef" -> "undefined"
      [] OTHER -> "[object Object]"

\* TwentyCRMServer.extractResourceId: the id as a string, "" for null
RECURSIVE extractResourceId(_)
extractResourceId(response) ==
    CASE response.k \in {"null", "undef"} -> ""
      [] response.k = "str" -> response.s
      [] response.k = "num" -> ToString(response.n)
      [] response.k = "arr" ->
            LET first(hit) ==
                    IF hit = {} THEN ""
                    ELSE extractResourceId(
                             response.a[CHOOSE i \in hit : \A j \in hit : i <= j])
            IN  first({i \in 1..Len(response.a) :
                          extractResourceId(response.a[i]) # ""})
      [] response.k = "obj" ->
            LET nested(key) ==
                    IF Has(response.e, key)
                    THEN extractResourceId(Get(response.e, key)) ELSE ""
                firstOf(id, data) ==
                    IF Truthy(id) THEN ToStr(id)
                    ELSE IF data # "" THEN data
                    ELSE nested("record")
            IN  firstOf(Get(response.e, "id"), nested("data"))
      [] OTHER -> ""

-----------------------------------------------------------------------------
(* The composite note-linking operation *)

\* the dedupe key of addRequest: the sorted keys, each with its value
DedupeKey(request) ==
    LET pairs(present) ==
            [i \in 1..Len(present) |-> << present[i], ToStr(Get(request, present[i])) >>]
    IN  pairs(SelectSeq(<< "companyId", "noteId", "personId", "workspaceMemberId" >>,
                        LAMBDA key : Has(request, key)))

\* addRequest without its dedupe set
AddRequestsKeepingDuplicates(candidates, i, acc) ==
    acc.requests \o SelectSeq(SubSeq(candidates, i, Len(candidates)),
                              LAMBDA request : DedupeKey(request) # << >>)

\* addRequest over the candidate requests, from i on: acc is [requests, dedupe]
RECURSIVE AddRequests(_, _, _)
AddRequests(candidates, i, acc) ==
    LET addRequest(normalized) ==
            IF normalized = << >> \/ normalized \in acc.dedupe THEN acc
            ELSE [requests |-> Append(acc.requests, candidates[i]),
                  dedupe |-> acc.dedupe \cup {normalized}]
    IN  IF i > Len(candidates) THEN acc.requests
        ELSE AddRequests(candidates, i + 1, addRequest(DedupeKey(candidates[i])))

\* the request the targets.forEach callback builds for one target
TargetRequest(noteId, target) ==
    << E("noteId", Str(noteId)) >>
       \o SelectSeq(<< E("personId", Get(target.e, "personId")),
                       E("companyId", Get(target.e, "companyId")),
                       E("workspaceMemberId", Get(target.e, "workspaceMemberId")) >>,
                    LAMBDA en : Truthy(en.val))

\* TwentyCRMServer.buildNoteTargetRequests: the requests, in order
buildNoteTargetRequests(noteId, personId, companyId, targets) ==
    LET person == << << E("noteId", Str(noteId)), E("personId", personId) >> >>
        company == IF Truthy(companyId)
                   THEN << << E("noteId", Str(noteId)), E("companyId", companyId) >> >>
                   ELSE << >>
        built(objects) == [i \in 1..Len(objects) |-> TargetRequest(noteId, objects[i])]
        extra == SelectSeq(built(IF targets.k = "arr"
                                 THEN SelectSeq(targets.a, LAMBDA tg : tg.k = "obj")
                                 ELSE << >>),
                           LAMBDA r : Len(r) > 1)
    IN  AddRequests(person \o company \o extra, 1,
                    [requests |-> << >>, dedupe |-> {}])

-----------------------------------------------------------------------------
(* Result normalization of list responses *)

\* value[key] of any value: undefined unless the value is an object
Prop(value, key) == IF value.k = "obj" THEN Get(value.e, key) ELSE Undefined

\* TwentyCRMServer.extractRecords
extractRecords(response) ==
    CASE response.k = "arr" -> response
      [] response.k = "obj" ->
            IF Prop(response, "data").k = "arr" THEN Prop(response, "data")
            ELSE IF Prop(response, "items").k = "arr" THEN Prop(response, "items")
            ELSE IF Prop(response, "records").k = "arr" THEN Prop(response, "records")
            ELSE Undefined
      [] OTHER -> Undefined

paginationKeys == << "nextCursor", "prevCursor", "hasNextPage", "hasPreviousPage",
                     "total", "totalCount" >>

\* a || b
OrElse(a, b) == IF Truthy(a) THEN a ELSE b

\* TwentyCRMServer.extractPagination
extractPagination(response) ==
    LET collected(found) ==
            IF Len(found) > 0
            THEN Obj([i \in 1..Len(found) |-> E(found[i], Get(response.e, found[i]))])
            ELSE Null
        extract(pageInfo, meta) ==
            IF pageInfo.k \in {"obj", "arr"} THEN pageInfo
            ELSE IF /\ meta.k \in {"obj", "arr"}
                    /\ \E key \in {"pagination", "page", "total", "count"} :
                           Truthy(Prop(meta, key))
                 THEN OrElse(Prop(meta, "pagination"), OrElse(Prop(meta, "page"), meta))
            ELSE collected(SelectSeq(paginationKeys,
                                     LAMBDA key : Has(response.e, key)))
    IN  IF response.k # "obj" THEN Null
        ELSE extract(Prop(response, "pageInfo"), Prop(response, "meta"))

\* TwentyCRMServer.resolveTotalFromPagination
resolveTotalFromPagination(pagination) ==
    LET totalKeys == << "totalCount", "total", "totalItems", "count" >>
        first(hit) ==
            IF hit = {} THEN Undefined
            ELSE Prop(pagination, totalKeys[CHOOSE i \in hit : \A j \in hit : i <= j])
    IN  first({i \in 1..Len(totalKeys) : Prop(pagination, totalKeys[i]).k = "num"})

\* TwentyCRMServer.resolveHasNextFromPagination
resolveHasNextFromPagination(pagination) ==
    IF pagination.k # "obj" THEN Undefined
    ELSE IF Prop(pagination, "hasNextPage").k = "bool" THEN Prop(pagination, "hasNextPage")
    ELSE IF Prop(pagination, "hasMore").k = "bool" THEN Prop(pagination, "hasMore")
    ELSE IF Has(pagination.e, "nextCursor")
         THEN Bool(Truthy(Prop(pagination, "nextCursor")))
    ELSE Undefined

\* buildListPayload without the branch that returns the response itself
buildListPayloadAlwaysWrapping(response) ==
    LET withItems(items) ==
            IF items.k # "undef"
            THEN << E("items", items),
                    E("summary", Obj(<< E("count", Num(Len(items.a))) >>)) >>
            ELSE << >>
        summaryOf(payload) ==
            IF Has(payload, "summary") THEN Get(payload, "summary").e ELSE << >>
        withPagination(payload, pagination) ==
            IF Truthy(pagination)
            THEN Put(Put(payload, "pagination", pagination), "summary",
                     Obj(Put(Put(summaryOf(payload), "total",
                                 resolveTotalFromPagination(pagination)),
                             "hasNextPage",
                             resolveHasNextFromPagination(pagination))))
            ELSE payload
    IN  Obj(Put(withPagination(withItems(extractRecords(response)),
                               extractPagination(response)),
                "raw", response))

\* TwentyCRMServer.buildListPayload
buildListPayload(response) ==
    LET withItems(items) ==
            IF items.k # "undef"
            THEN << E("items", items),
                    E("summary", Obj(<< E("count", Num(Len(items.a))) >>)) >>
            ELSE << >>
        summaryOf(payload) ==
            IF Has(payload, "summary") THEN Get(payload, "summary").e ELSE << >>
        withPagination(payload, pagination) ==
            IF Truthy(pagination)
            THEN Put(Put(payload, "pagination", pagination), "summary",
                     Obj(Put(Put(summaryOf(payload), "total",
                                 resolveTotalFromPagination(pagination)),
                             "hasNextPage",
                             resolveHasNextFromPagination(pagination))))
            ELSE payload
        withRaw(payload) ==
            IF ~Has(payload, "items") /\ response.k \notin {"obj", "arr"}
            THEN response
            ELSE Obj(Put(payload, "raw", response))
    IN  withRaw(withPagination(withItems(extractRecords(response)),
                               extractPagination(response)))

-----------------------------------------------------------------------------
(* The server: refresh, dispatch and the tool handlers.  A handler segment *)
(* yields the registry and tool list it leaves and either the result of    *)
(* the call or the request it awaits.                                      *)

\* the registry held in the state variables
Registry == [schemas |-> objectSchemas, aliases |-> objectAliases,
             supported |-> supportedObjects]

\* TwentyCRMServer.refreshSchemaIfChanged:
\* [metadata, operations, fileStats, reg, tools, threw]
refreshSchemaIfChanged(md, ops, stats, reg, tls, mf, of) ==
    LET same == [metadata |-> md, operations |-> ops, fileStats |-> stats,
                 reg |-> reg, tools |-> tls, threw |-> FALSE]
        loaded(ld) == [metadata |-> ld.metadata, operations |-> ld.operations,
                       fileStats |-> ld.fileStats, reg |-> reg, tools |-> tls,
                       threw |-> FALSE]
        rebuilt(ld, rb) == [loaded(ld) EXCEPT !.reg = rb.reg, !.tools = rb.tools,
                                              !.threw = rb.threw]
        reloaded(ld) ==
            IF ld.ok THEN rebuilt(ld, rebuildRegistry(ld.metadata, tls))
            ELSE loaded(ld)
    IN  IF md # "none" /\ ~hasSchemaChanged(md, stats, mf, of) THEN same
        ELSE reloaded(loadSchemas(md, ops, stats, mf, of))

\* what a call keeps across its awaits
NoCont == [stage |-> "", label |-> "", noteId |-> "", pending |-> << >>,
           created |-> << >>, schema |-> Nothing]

Done(reg, tls, result) ==
    [reg |-> reg, tools |-> tls, pc |-> "done", result |-> result,
     request |-> Nothing, cont |-> NoCont]

Await(reg, tls, request, cont) ==
    [reg |-> reg, tools |-> tls, pc |-> "await", result |-> Nothing,
     request |-> request, cont |-> cont]

\* the catch clause of the call handler
Caught(reg, tls, error) == Done(reg, tls, buildErrorContent(error))

\* const { id, ...updateData } = args
WithoutId(args) == Obj(Delete(args.e, "id"))

\* TwentyCRMServer.handleCRUDOperation up to its await.  The query string of a
\* list request is left out of the endpoint.
handleCRUDOperation(reg, tls, operation, objectName, args) ==
    LET id == Get(args.e, "id")
        go(request, message) ==
            Await(reg, tls, request, [NoCont EXCEPT !.stage = operation,
                                                    !.label = message])
        missingId == Caught(reg, tls, Error("Missing id"))
        switch(schema, endpoint, label) ==
            CASE operation = "create" ->
                    go(Request(endpoint, "POST", sanitizePayload(args, schema)),
                       "Created " \o label)
              [] operation = "get" ->
                    IF ~Truthy(id) THEN missingId
                    ELSE go(Request(endpoint \o "/" \o ToStr(id), "GET", Nothing),
                            label \o " details")
              [] operation = "update" ->
                    IF ~Truthy(id) THEN missingId
                    ELSE go(Request(endpoint \o "/" \o ToStr(id), "PUT",
                                    sanitizePayload(WithoutId(args), schema)),
                            "Updated " \o label)
              [] operation = "list" ->
                    go(Request(endpoint, "GET", Nothing), "list")
              [] operation = "delete" ->
                    IF ~Truthy(id) THEN missingId
                    ELSE go(Request(endpoint \o "/" \o ToStr(id), "DELETE", Nothing),
                            "Deleted " \o label)
              [] OTHER -> Caught(reg, tls, Error("Unknown operation"))
        handle(schema) ==
            switch(schema, "/rest/" \o schema.namePlural,
                   IF schema.labelSingular # "" THEN schema.labelSingular
                   ELSE schema.nameSingular)
        resolved(pluralKey) ==
            IF pluralKey = "" THEN Caught(reg, tls, Error("Unsupported object"))
            ELSE handle(reg.schemas[pluralKey])
    IN  resolved(resolveObject(reg, objectName))

\* getLocalObjectSchema without this.tools = this.generateToolsFromSchema()
getLocalObjectSchemaKeepingTools(reg, tls, md, objectName) ==
    LET answer(schema) ==
            buildContent("Local schema for " \o schema.namePlural,
                         Obj(<< E("required", Arr(schema.required)),
                                E("properties", Arr(schema.properties)) >>))
        registered(generated, reg1) ==
            Done(reg1, tls, answer(generated))
        generate(generated) ==
            IF generated = Nothing THEN Caught(reg, tls, Error("Unknown object"))
            ELSE IF ToLowerCase(generated.namePlural) \in DOMAIN reg.schemas
                 THEN Done(reg, tls, answer(generated))
            ELSE registered(generated, registerObjectSchema(reg, generated))
        resolved(name, pluralKey) ==
            IF pluralKey # "" THEN Done(reg, tls, answer(reg.schemas[pluralKey]))
            ELSE IF md # "none" /\ LacksObjectList(md)
                 THEN Caught(reg, tls, Error("Cannot read properties of undefined"))
            ELSE generate(generateToolSchema(md, name))
    IN  IF ~Truthy(objectName) THEN Caught(reg, tls, Error("objectName is required"))
        ELSE resolved(ToStr(objectName), resolveObject(reg, ToStr(objectName)))

\* TwentyCRMServer.getLocalObjectSchema
getLocalObjectSchema(reg, tls, md, objectName) ==
    LET answer(schema) ==
            buildContent("Local schema for " \o schema.namePlural,
                         Obj(<< E("required", Arr(schema.required)),
                                E("properties", Arr(schema.properties)) >>))
        registered(generated, reg1) ==
            Done(reg1, generateToolsFromSchema(reg1), answer(generated))
        generate(generated) ==
            IF generated = Nothing THEN Caught(reg, tls, Error("Unknown object"))
            ELSE IF ToLowerCase(generated.namePlural) \in DOMAIN reg.schemas
                 THEN Done(reg, tls, answer(generated))
            ELSE registered(generated, registerObjectSchema(reg, generated))
        resolved(name, pluralKey) ==
            IF pluralKey # "" THEN Done(reg, tls, answer(reg.schemas[pluralKey]))
            ELSE IF md # "none" /\ LacksObjectList(md)
                 THEN Caught(reg, tls, Error("Cannot read properties of undefined"))
            ELSE generate(generateToolSchema(md, name))
    IN  IF ~Truthy(objectName) THEN Caught(reg, tls, Error("objectName is required"))
        ELSE resolved(ToStr(objectName), resolveObject(reg, ToStr(objectName)))

\* TwentyCRMServer.createNoteForPerson up to its first await
createNoteForPerson(reg, tls, params) ==
    LET personId == Get(params.e, "personId")
        note == Get(params.e, "note")
        post(sanitizedNote) ==
            IF Len(sanitizedNote) = 0
            THEN Caught(reg, tls, Error("No note fields provided"))
            ELSE Await(reg, tls, Request("/rest/notes", "POST", sanitizedNote),
                       [NoCont EXCEPT !.stage = "note"])
    IN  IF ~Truthy(personId) THEN Caught(reg, tls, Error("personId is required"))
        ELSE IF note.k \notin {"obj", "arr"}
             THEN Caught(reg, tls, Error("note object is required"))
        ELSE IF "notes" \notin DOMAIN reg.schemas
             THEN Caught(reg, tls, Error("Notes schema unavailable"))
        ELSE post(sanitizePayload(note, reg.schemas["notes"]))

\* the for loop of createNoteForPerson at its next iteration: the next link
\* request is sanitized and sent, or the call returns
NextLink(reg, tls, cont) ==
    IF Len(cont.pending) = 0
    THEN Done(reg, tls,
              buildContent("Created note " \o cont.noteId,
                           Obj(<< E("noteId", Str(cont.noteId)),
                                  E("createdTargets", Arr(cont.created)) >>)))
    ELSE Await(reg, tls,
               Request("/rest/noteTargets", "POST",
                       sanitizePayload(Obj(Head(cont.pending)), cont.schema)),
               [cont EXCEPT !.stage = "link", !.pending = Tail(cont.pending)])

\* createNoteForPerson from the answer to the note creation on
AfterNote(reg, tls, params, value) ==
    LET link(noteId, targetRequests) ==
            IF Len(targetRequests) = 0
            THEN Caught(reg, tls, Error("No note targets resolved"))
            ELSE NextLink(reg, tls,
                          [NoCont EXCEPT !.noteId = noteId, !.pending = targetRequests,
                                         !.schema = reg.schemas["notetargets"]])
        created(noteId) ==
            IF noteId = ""
            THEN Caught(reg, tls, Error("Unable to determine created note ID"))
            ELSE IF "notetargets" \notin DOMAIN reg.schemas
                 THEN Caught(reg, tls, Error("noteTargets schema unavailable"))
            ELSE link(noteId,
                      buildNoteTargetRequests(noteId, Get(params.e, "personId"),
                                              Get(params.e, "companyId"),
                                              Get(params.e, "targets")))
    IN  created(extractResourceId(value))

\* createNoteForPerson from the answer to a link request on
AfterLink(reg, tls, cont, request, value) ==
    LET made(id) == IF id # "" THEN Str(id) ELSE Obj(request.body)
    IN  NextLink(reg, tls,
                 [cont EXCEPT !.created = Append(cont.created,
                                                 made(extractResourceId(value)))])

\* the names in globalToolHandlers
GlobalToolNames ==
    { <<"get", "metadata_objects">>, <<"get", "object_metadata">>,
      <<"get", "local_object_schema">>, <<"get", "available_operations">>,
      <<"search", "records">>, <<"create", "note_for_person">> }

\* the try block of the CallToolRequestSchema handler up to its first await
Dispatch(reg, tls, md, name, args) ==
    IF name = <<"get", "local_object_schema">>
    THEN getLocalObjectSchema(reg, tls, md, Get(args.e, "objectName"))
    ELSE IF name = <<"create", "note_for_person">>
    THEN createNoteForPerson(reg, tls, args)
    ELSE IF name[1] \in {"create", "get", "update", "list", "delete"} /\ name[2] # ""
    THEN handleCRUDOperation(reg, tls, name[1], name[2], args)
    ELSE Caught(reg, tls, Error("Unknown tool"))

\* the call handler from the answer to its awaited request on
Resume(reg, tls, call, reply) ==
    LET request == call.reqs[Len(call.reqs)]
        resume(got) ==
            IF ~got.ok THEN Caught(reg, tls, got.error)
            ELSE CASE call.cont.stage = "note" ->
                        AfterNote(reg, tls, call.args, got.value)
                   [] call.cont.stage = "link" ->
                        AfterLink(reg, tls, call.cont, request, got.value)
                   [] call.cont.stage = "delete" ->
                        Done(reg, tls, buildContent(call.cont.label, Nothing))
                   [] call.cont.stage = "list" ->
                        Done(reg, tls, buildContent(call.cont.label,
                                                    buildListPayload(got.value)))
                   [] OTHER ->
                        Done(reg, tls, buildContent(call.cont.label, got.value))
    IN  resume(makeRequest(request, reply))

-----------------------------------------------------------------------------
(* The inputs of the model *)

RequestSlots == {1}

EmptyArgs == Obj(<< >>)

\* the CRUD calls tried: every operation on a core object, with and without an
\* id; payloads with an id key on an object that has a relation named id; an
\* object name that nothing declares
CrudCalls ==
    { [name |-> <<"create", "person">>,
       args |-> Obj(<< E("company", Obj(<< E("id", Str("c1")) >>)),
                       E("id", Str("r1")) >>)],
      [name |-> <<"get", "person">>, args |-> EmptyArgs],
      [name |-> <<"get", "person">>, args |-> Obj(<< E("id", Str("r1")) >>)],
      [name |-> <<"update", "person">>, args |-> Obj(<< E("name", Str("N")) >>)],
      [name |-> <<"update", "person">>,
       args |-> Obj(<< E("id", Str("r1")), E("name", Str("N")) >>)],
      [name |-> <<"list", "people">>, args |-> EmptyArgs],
      [name |-> <<"delete", "person">>, args |-> Obj(<< E("id", Str("r1")) >>)],
      [name |-> <<"create", "pet">>,
       args |-> Obj(<< E("id", Num(7)), E("name", Str("N")) >>)],
      [name |-> <<"update", "pet">>,
       args |-> Obj(<< E("id", Str("r1")), E("owner", Str("p1")) >>)],
      [name |-> <<"create", "ghost">>, args |-> Obj(<< E("name", Str("N")) >>)] }

SchemaCalls ==
    { [name |-> <<"get", "local_object_schema">>, args |-> a] :
      a \in { EmptyArgs,
              Obj(<< E("objectName", Str("noteTargets")) >>),
              Obj(<< E("objectName", Str("pets")) >>) } }

TitleNote == Obj(<< E("title", Str("T")) >>)

TargetsA == Arr(<< Obj(<< E("personId", Str("p1")) >>),
                   Obj(<< E("companyId", Str("c2")) >>) >>)

TargetsB == Arr(<< Obj(<< E("workspaceMemberId", Str("w1")), E("personId", Str("p2")) >>),
                   Obj(<< >>),
                   Obj(<< E("companyId", Str("c1")) >>),
                   Obj(<< E("personId", Str("p2")), E("workspaceMemberId", Str("w1")) >>) >>)

\* an object of the given optional entries (undefined ones left out)
Params(personId, note, companyId, targets) ==
    Obj(SelectSeq(<< E("personId", personId), E("note", note),
                     E("companyId", companyId), E("targets", targets) >>,
                  LAMBDA en : en.val.k # "undef"))

NoteCalls ==
    { [name |-> <<"create", "note_for_person">>, args |-> a] :
      a \in { Params(Undefined, TitleNote, Undefined, Undefined),
              Params(Str("p1"), Undefined, Undefined, Undefined),
              Params(Str("p1"), Obj(<< E("id", Str("n0")) >>), Undefined, Undefined),
              Params(Str("p1"), TitleNote, Str("c1"), Undefined),
              Params(Str("p1"), TitleNote, Str("c1"), TargetsA),
              Params(Str("p1"), TitleNote, Str("c1"), TargetsB),
              Params(Str(" "), TitleNote, Undefined, TargetsA) } }

OtherCalls == { [name |-> <<"foo", "bar">>, args |-> EmptyArgs] }

ToolCalls == CrudCalls \cup SchemaCalls \cup NoteCalls \cup OtherCalls

\* the answers of the backend tried for a request: a record with an id, a list
\* page, an empty answer, an error status and no answer at all
CreatedId == "n1"

Replies(stage) ==
    CASE stage = "list" ->
            { OkReply(Obj(<< E("data", Arr(<< >>)), E("totalCount", Num(0)) >>)),
              StatusReply(404) }
      [] stage \in {"note", "link"} ->
            { OkReply(Obj(<< E("data", Obj(<< E("id", Str(CreatedId)) >>)) >>)),
              OkReply(Null),
              StatusReply(404) }
      [] OTHER ->
            { OkReply(Obj(<< E("data", Obj(<< E("id", Str(CreatedId)) >>)) >>)),
              StatusReply(404),
              NetworkFailure }

-----------------------------------------------------------------------------
(* The state machine *)

\* no function is applied directly
NoProbe == [fn |-> "none"]

\* a function about to be applied to its inputs, and the function applied
Input(fn, in) == [fn |-> fn, applied |-> FALSE, in |-> in, out |-> Undefined]
Output(fn, in, out) == [fn |-> fn, applied |-> TRUE, in |-> in, out |-> out]

IdleCall ==
    [pc |-> "idle", name |-> << >>, args |-> EmptyArgs, reqs |-> << >>,
     answered |-> 0, failed |-> Nothing, cont |-> NoCont, result |-> Nothing]

\* The constructor of TwentyCRMServer: loadSchemas, then rebuildRegistry.
Constructor ==
    /\ metaFile \in [content : MetaContents, sig : {1}]
    /\ opsFile \in [content : OpsContents, sig : {1}]
    /\ changes = 0
    /\ served = 0
    /\ \E ld \in {loadSchemas("none", "none", [metadata |-> 0, operations |-> 0],
                              metaFile, opsFile)} :
       \E rb \in {rebuildRegistry(ld.metadata, << >>)} :
           /\ metadata = ld.metadata
           /\ operations = ld.operations
           /\ fileStats = ld.fileStats
           /\ serverUp = IF rb.threw THEN "ctor_threw" ELSE "up"
           /\ objectSchemas = rb.reg.schemas
           /\ objectAliases = rb.reg.aliases
           /\ supportedObjects = rb.reg.supported
           /\ tools = rb.tools
    /\ calls = [s \in RequestSlots |-> IdleCall]

\* the server after construction; no function is applied directly
Init ==
    /\ Constructor
    /\ probe = NoProbe

\* the environment rewrites the metadata file
ChangeMetadataFile ==
    /\ changes < MaxFileChanges
    /\ \E content \in MetaContents :
           metaFile' = [content |-> content, sig |-> metaFile.sig + 1]
    /\ changes' = changes + 1
    /\ UNCHANGED <<opsFile, metadata, operations, fileStats, serverUp, objectSchemas,
                   objectAliases, supportedObjects, tools, calls, served, probe>>

\* the environment rewrites or removes the operations file
ChangeOperationsFile ==
    /\ changes < MaxFileChanges
    /\ \E content \in OpsContents :
           opsFile' = [content |-> content, sig |-> opsFile.sig + 1]
    /\ changes' = changes + 1
    /\ UNCHANGED <<metaFile, metadata, operations, fileStats, serverUp, objectSchemas,
                   objectAliases, supportedObjects, tools, calls, served, probe>>

\* what a handler segment leaves in the server's own state
Install(rf, out) ==
    /\ metadata' = rf.metadata
    /\ operations' = rf.operations
    /\ fileStats' = rf.fileStats
    /\ objectSchemas' = out.reg.schemas
    /\ objectAliases' = out.reg.aliases
    /\ supportedObjects' = out.reg.supported
    /\ tools' = out.tools

\* the ListToolsRequestSchema handler
ListTools ==
    /\ serverUp = "up"
    /\ served < MaxRequests
    /\ served' = served + 1
    /\ \E rf \in {refreshSchemaIfChanged(metadata, operations, fileStats, Registry,
                                         tools, metaFile, opsFile)} :
           Install(rf, rf)
    /\ UNCHANGED <<metaFile, opsFile, changes, serverUp, calls, probe>>

\* the CallToolRequestSchema handler up to its first await or its return
CallTool(s) ==
    /\ serverUp = "up"
    /\ served < MaxRequests
    /\ calls[s].pc # "await"
    /\ served' = served + 1
    /\ \E rf \in {refreshSchemaIfChanged(metadata, operations, fileStats, Registry,
                                         tools, metaFile, opsFile)} :
       \E in \in ToolCalls :
       \E out \in {IF rf.threw
                   THEN Done(rf.reg, rf.tools, Threw)
                   ELSE Dispatch(rf.reg, rf.tools, rf.metadata, in.name, in.args)} :
           /\ Install(rf, out)
           /\ calls' = [calls EXCEPT ![s] =
                 [pc |-> out.pc, name |-> in.name, args |-> in.args,
                  reqs |-> IF out.pc = "await" THEN << out.request >> ELSE << >>,
                  answered |-> 0, failed |-> Nothing, cont |-> out.cont,
                  result |-> out.result]]
    /\ UNCHANGED <<metaFile, opsFile, changes, serverUp, probe>>

\* the backend answers the awaited request and the handler runs on to its next
\* await or its return
BackendReply(s) ==
    /\ calls[s].pc = "await"
    /\ \E reply \in Replies(calls[s].cont.stage) :
       \E out \in {Resume(Registry, tools, calls[s], reply)} :
             /\ calls' = [calls EXCEPT ![s] =
                   [@ EXCEPT !.pc = out.pc,
                             !.reqs = IF out.pc = "await"
                                      THEN Append(@, out.request) ELSE @,
                             !.answered = @ + 1,
                             !.failed = IF reply.kind = "ok" THEN Nothing ELSE reply,
                             !.cont = out.cont,
                             !.result = out.result]]
    /\ UNCHANGED <<metaFile, opsFile, changes, metadata, operations, fileStats,
                   serverUp, objectSchemas, objectAliases, supportedObjects, tools,
                   served, probe>>

Next ==
    \/ ChangeMetadataFile
    \/ ChangeOperationsFile
    \/ ListTools
    \/ \E s \in RequestSlots : CallTool(s)
    \/ \E s \in RequestSlots : BackendReply(s)

Spec == Init /\ [][Next]_vars


-----------------------------------------------------------------------------
(* Direct applications of the server's and the loader's functions, as the  *)
(* tests make them: the server is constructed over the full export, then   *)
(* one function at a time is applied to an input and its result recorded.  *)

\* Infinity: a number that Number.isFinite rejects
Infinite == [k |-> "inf"]

\* the values of payload keys: scalars; plain records, with and without an id
\* or a value; lists, and records with an ids key; link records
ProbeValues ==
    { Null, Str("a"), Str("b"), Str(" p1"), Str(""), Str(" "), Num(5), Infinite,
      Bool(TRUE),
      Obj(<< E("id", Str("a")) >>),
      Obj(<< E("id", Str(" ")) >>),
      Obj(<< E("value", Str("b")) >>),
      Obj(<< E("id", Str("")), E("value", Str("b")) >>),
      Obj(<< E("id", Str(" p1")), E("value", Str("b")) >>),
      Obj(<< E("id", Num(5)) >>),
      Obj(<< >>),
      Arr(<< >>),
      Arr(<< Obj(<< E("id", Str("a")) >>), Str("b") >>),
      Arr(<< Str("p1"), Str(" p1"), Null, Num(5), Str(""), Str("p1") >>),
      Arr(<< Str(""), Null, Obj(<< >>) >>),
      Obj(<< E("ids", Arr(<< >>)) >>),
      Obj(<< E("ids", Arr(<< >>)), E("id", Str("a")) >>),
      Obj(<< E("ids", Arr(<< Str("a"), Obj(<< E("value", Str("b")) >>), Str("a") >>)) >>),
      Obj(<< E("ids", Str("a")) >>),
      Str("https://x.com"),
      Obj(<< E("primaryLinkUrl", Str("https://x.com")), E("primaryLinkLabel", Str("X")),
             E("secondaryLinks", Arr(<< >>)) >>),
      Obj(<< E("primaryLinkUrl", Str(" p1")) >>),
      Obj(<< E("secondaryLinks", Null) >>),
      Obj(<< E("url", Str("https://x.com")) >>) }

\* the people contract the tests expect: the compiled one, with the
\* one-to-many relation noteTargets under the alias noteTargetsIds and a
\* many-to-many relation already named tagIds
LinkedPeopleContract ==
    LET with(schema) ==
          [schema EXCEPT
             !.properties =
                 Put(Put(@, "noteTargetsIds", Property("array", "alias")),
                     "tagIds", Property("array", "field")),
             !.relationMetadata =
                 @ \o << [name |-> "noteTargets", alias |-> "noteTargetsIds",
                          relationType |-> "ONE_TO_MANY"],
                         [name |-> "tagIds", alias |-> "tagIds",
                          relationType |-> "MANY_TO_MANY"] >>]
    IN  with(generateToolSchema("full", "people"))

\* a RELATION field of that name and relation type
RelationField(name, rel) == Field(name, "RELATION", FALSE, TRUE, FALSE, rel)

\* a contract of two relations whose descriptors carry the aliases that
\* getRelationAlias derives, each alias being a property
RelatedContract(first, second) ==
    LET descriptor(field) ==
            [name |-> field.name, alias |-> getRelationAlias(field),
             relationType |-> field.rel]
        property(field) ==
            E(getRelationAlias(field),
              Property(IF field.rel \in {"MANY_TO_ONE", "ONE_TO_ONE"}
                       THEN "string" ELSE "array", "alias"))
    IN  [FallbackSchema("tasks") EXCEPT
            !.properties = << property(first), property(second) >>,
            !.relationMetadata = << descriptor(first), descriptor(second) >>]

\* the contracts handed to sanitizePayload: compiled ones, fallback ones, the
\* one with relations to many, and three in which the alias of the first
\* relation is the field name of the second: both relations to one, a
\* relation to one and a relation to many, and the reverse
ProbeContracts ==
    {generateToolSchema("full", name) :
        name \in {"people", "companies", "noteTargets", "pets", "deals"}}
      \cup {FallbackSchema("noteTargets"), FallbackSchema("tasks")}
      \cup {LinkedPeopleContract}
      \cup {RelatedContract(RelationField("owner", "MANY_TO_ONE"),
                            RelationField("ownerId", "ONE_TO_ONE")),
            RelatedContract(RelationField("owner", "MANY_TO_ONE"),
                            RelationField("ownerId", "ONE_TO_MANY")),
            RelatedContract(RelationField("noteTargets", "ONE_TO_MANY"),
                            RelationField("noteTargetsIds", "MANY_TO_ONE"))}

\* the keys of the payloads: relation names, aliases, LINKS fields, plain fields
ProbeKeys ==
    { "company", "companyId", "note", "owner", "ownerId", "id", "noteTargets",
      "noteTargetsIds", "tagIds", "website", "domainName", "name" }

\* payloads of one key, and payloads that give a relation twice
ProbePayloads ==
    {Obj(<< E(key, value) >>) : key \in ProbeKeys, value \in ProbeValues}
      \cup { Obj(<< E("company", Obj(<< E("id", Str("a")) >>)),
                    E("companyId", Str("b")) >>),
             Obj(<< E("companyId", Str("b")),
                    E("company", Obj(<< E("id", Str("a")) >>)) >>),
             Obj(<< E("company", Obj(<< E("id", Str("a")) >>)),
                    E("noteTargets", Arr(<< Obj(<< E("id", Str("a")) >>), Str("b") >>)) >>),
             Obj(<< E("name", Str("a")), E("domainName", Str("https://x.com")),
                    E("website", Str(" p1")) >>) }

\* server.sanitizePayload(payload, schema)
ApplySanitizePayload ==
    /\ probe.fn = "sanitizePayload"
    /\ ~probe.applied
    /\ probe' = Output(probe.fn, probe.in,
                       Obj(sanitizePayload(probe.in.payload, probe.in.schema)))
    /\ UNCHANGED << metaFile, opsFile, changes, metadata, operations, fileStats,
                    serverUp, objectSchemas, objectAliases, supportedObjects, tools,
                    calls, served >>

\* server.normalizeLinksValue(value)
ApplyNormalizeLinksValue ==
    /\ probe.fn = "normalizeLinksValue"
    /\ ~probe.applied
    /\ probe' = Output(probe.fn, probe.in, normalizeLinksValue(probe.in.value))
    /\ UNCHANGED << metaFile, opsFile, changes, metadata, operations, fileStats,
                    serverUp, objectSchemas, objectAliases, supportedObjects, tools,
                    calls, served >>

\* backend responses: with and without a record array, with and without
\* pagination
ListResponses ==
    { Null, Str("ok"), Num(5), Bool(TRUE), Infinite,
      Obj(<< >>),
      Obj(<< E("id", Str("a")) >>),
      Obj(<< E("data", Obj(<< E("id", Str("a")) >>)) >>),
      Obj(<< E("total", Num(3)), E("nextCursor", Str("b")) >>),
      Obj(<< E("pageInfo", Obj(<< E("hasNextPage", Bool(TRUE)) >>)) >>),
      Obj(<< E("meta", Obj(<< E("total", Num(3)) >>)) >>),
      Obj(<< E("items", Str("a")), E("hasNextPage", Bool(FALSE)) >>),
      Obj(<< E("data", Null), E("records", Obj(<< >>)), E("totalCount", Num(0)) >>),
      Arr(<< >>),
      Arr(<< Obj(<< E("id", Str("a")) >>) >>),
      Obj(<< E("data", Arr(<< Obj(<< E("id", Str("a")) >>), Obj(<< E("id", Str("b")) >>) >>)),
             E("totalCount", Num(2)) >>),
      Obj(<< E("data", Str("a")), E("items", Arr(<< >>)) >>),
      Obj(<< E("records", Arr(<< Str("a") >>)),
             E("pageInfo", Obj(<< E("hasNextPage", Bool(FALSE)) >>)) >>) }

\* server.buildListPayload(response)
ApplyBuildListPayload ==
    /\ probe.fn = "buildListPayload"
    /\ ~probe.applied
    /\ probe' = Output(probe.fn, probe.in, buildListPayload(probe.in.response))
    /\ UNCHANGED << metaFile, opsFile, changes, metadata, operations, fileStats,
                    serverUp, objectSchemas, objectAliases, supportedObjects, tools,
                    calls, served >>

\* every contract the loader compiles from the full export, and the fallback
\* contracts
AllContracts ==
    {generateToolSchema("full", ExportObjects("full")[i].namePlural) :
        i \in 1..Len(ExportObjects("full"))}
      \cup {FallbackSchema(getCoreObjects[i]) : i \in 1..Len(getCoreObjects)}
      \cup {FallbackSchema("noteTargets")}

\* server.generateToolsFromSchema() over the registry
ApplyGenerateToolsFromSchema ==
    /\ probe.fn = "generateToolsFromSchema"
    /\ ~probe.applied
    /\ probe' = Output(probe.fn, probe.in, generateToolsFromSchema(probe.in.reg))
    /\ UNCHANGED << metaFile, opsFile, changes, metadata, operations, fileStats,
                    serverUp, objectSchemas, objectAliases, supportedObjects, tools,
                    calls, served >>

\* loader.getRelationAlias(field)
ApplyGetRelationAlias ==
    /\ probe.fn = "getRelationAlias"
    /\ ~probe.applied
    /\ probe' = Output(probe.fn, probe.in,
                       getRelationAlias(RelationField(probe.in.name, probe.in.rel)))
    /\ UNCHANGED << metaFile, opsFile, changes, metadata, operations, fileStats,
                    serverUp, objectSchemas, objectAliases, supportedObjects, tools,
                    calls, served >>

\* the contracts registered one after the other: two of them have the plural
\* name people and one the plural name People
RegisteredContracts ==
    { generateToolSchema("full", "people"),
      FallbackSchema("people"),
      [FallbackSchema("people") EXCEPT !.namePlural = "People"],
      generateToolSchema("full", "notes"),
      generateToolSchema("full", "deals") }

\* server.registerObjectSchema(schema) on the registry that registering the
\* contracts of before, in order, has made
ApplyRegisterObjectSchema ==
    /\ probe.fn = "registerObjectSchema"
    /\ ~probe.applied
    /\ probe' = Output(probe.fn, probe.in,
                       registerObjectSchema(probe.in.reg, probe.in.schema))
    /\ UNCHANGED << metaFile, opsFile, changes, metadata, operations, fileStats,
                    serverUp, objectSchemas, objectAliases, supportedObjects, tools,
                    calls, served >>

\* the fields an object may declare: relations to one whose aliases are
\* ownerId and companyId, fields of those very names, a text field and a
\* relation to many
DeclaredFields ==
    { RelationField("owner", "MANY_TO_ONE"),
      Field("ownerId", "NUMBER", FALSE, TRUE, FALSE, "NONE"),
      RelationField("company", "ONE_TO_ONE"),
      RelationField("companyId", "MANY_TO_ONE"),
      Field("name", "TEXT", FALSE, FALSE, FALSE, "NONE"),
      RelationField("tags", "MANY_TO_MANY") }

\* objects declaring one, two or three of these fields in every order
DeclaredObjects ==
    {Object("thing", "things", "Thing", "Things", TRUE, fields) :
        fields \in {<< a >> : a \in DeclaredFields}
                   \cup {s \in DeclaredFields \X DeclaredFields : s[1] # s[2]}
                   \cup {s \in DeclaredFields \X DeclaredFields \X DeclaredFields :
                            s[1] # s[2] /\ s[1] # s[3] /\ s[2] # s[3]}}

\* loader.generateToolSchema(name) where name is the name of the object
ApplyGenerateToolSchema ==
    /\ probe.fn = "generateToolSchema"
    /\ ~probe.applied
    /\ probe' = Output(probe.fn, probe.in, compileObject(probe.in.object))
    /\ UNCHANGED << metaFile, opsFile, changes, metadata, operations, fileStats,
                    serverUp, objectSchemas, objectAliases, supportedObjects, tools,
                    calls, served >>

\* the contracts of the registries whose tools are called: people and notes;
\* a custom object whose singular label is the one of people; one whose
\* singular name is the one of people; one whose singular name makes its
\* create tool the composite tool
CalledContracts ==
    { generateToolSchema("full", "people"),
      generateToolSchema("full", "notes"),
      compileObject(Object("contact", "contacts", "Person", "Contacts", TRUE,
                           << Field("name", "TEXT", FALSE, TRUE, FALSE, "NONE") >>)),
      compileObject(Object("person", "persons", "", "", TRUE,
                           << Field("name", "TEXT", FALSE, TRUE, FALSE, "NONE") >>)),
      compileObject(Object("note_for_person", "note_for_people", "", "", TRUE,
                           << Field("name", "TEXT", FALSE, TRUE, FALSE, "NONE") >>)) }

\* the arguments the listed tools are called with
CalledArgs == Obj(<< E("id", Str("r1")), E("name", Str("N")) >>)

\* the call handler on the tool listed at place probe.in.tool, up to its first
\* await or its return
ApplyCallTool ==
    /\ probe.fn = "callTool"
    /\ ~probe.applied
    /\ \E tls \in {generateToolsFromSchema(probe.in.reg)} :
           probe' = Output(probe.fn, probe.in,
                           Dispatch(probe.in.reg, tls, "full",
                                    tls[probe.in.tool].name, CalledArgs))
    /\ UNCHANGED << metaFile, opsFile, changes, metadata, operations, fileStats,
                    serverUp, objectSchemas, objectAliases, supportedObjects, tools,
                    calls, served >>

\* every function and input: sanitizePayload on a payload and a contract,
\* normalizeLinksValue on a value, buildListPayload on a response,
\* generateToolsFromSchema on a registry holding one contract, and
\* getRelationAlias on a field of a name and a relation type
FunctionInputs ==
    {Input("sanitizePayload", [payload |-> payload, schema |-> schema]) :
        payload \in ProbePayloads, schema \in ProbeContracts}
      \cup {Input("normalizeLinksValue", [value |-> value]) :
               value \in ProbeValues \cup {Undefined}}
      \cup {Input("buildListPayload", [response |-> response]) :
               response \in ListResponses}
      \cup {Input("generateToolsFromSchema",
                  [reg |-> registerObjectSchema(EmptyRegistry, schema)]) :
               schema \in AllContracts}
      \cup {Input("getRelationAlias", [name |-> name, rel |-> rel]) :
               name \in NameStems \ {""},
               rel \in {"MANY_TO_ONE", "ONE_TO_ONE", "ONE_TO_MANY", "MANY_TO_MANY",
                        "UNKNOWN"}}
      \cup {in \in {Input("callTool",
                         [reg |-> registerObjectSchema(
                                      registerObjectSchema(EmptyRegistry, a), b),
                          tool |-> tool]) :
                      a \in CalledContracts, b \in CalledContracts, tool \in 1..10} :
               in.in.tool <= 5 * Len(in.in.reg.supported)}
      \cup {Input("generateToolSchema", [object |-> object]) :
               object \in DeclaredObjects}
      \cup {Input("registerObjectSchema",
                  [before |-> << >>, reg |-> EmptyRegistry, schema |-> schema]) :
               schema \in RegisteredContracts}
      \cup {Input("registerObjectSchema",
                  [before |-> << a >>, reg |-> registerObjectSchema(EmptyRegistry, a),
                   schema |-> schema]) :
               a \in RegisteredContracts, schema \in RegisteredContracts}
      \cup {Input("registerObjectSchema",
                  [before |-> << a, b >>,
                   reg |-> registerObjectSchema(registerObjectSchema(EmptyRegistry, a), b),
                   schema |-> schema]) :
               a \in RegisteredContracts, b \in RegisteredContracts,
               schema \in RegisteredContracts}

\* the server of the tests, constructed over the full export, and one
\* function about to be applied
FunctionInit ==
    /\ Constructor
    /\ metaFile.content = "full"
    /\ opsFile.content = "ok"
    /\ probe \in FunctionInputs

FunctionNext ==
    \/ ApplySanitizePayload
    \/ ApplyNormalizeLinksValue
    \/ ApplyBuildListPayload
    \/ ApplyGenerateToolsFromSchema
    \/ ApplyGetRelationAlias
    \/ ApplyRegisterObjectSchema
    \/ ApplyGenerateToolSchema
    \/ ApplyCallTool

FunctionSpec == FunctionInit /\ [][FunctionNext]_vars

-----------------------------------------------------------------------------
(* Properties of the registry: C1, C2, C3 *)

\* the names in a tool list
ToolNames(tls) == {tls[i].name : i \in 1..Len(tls)}

\* the singular the tool names of a core object are built from
CoreSingular ==
    [people |-> "person", companies |-> "company", notes |-> "note",
     tasks |-> "task", opportunities |-> "opportunity"]

CoreNames == DOMAIN CoreSingular

\* the CRUD tool names of an object, by the object name each one carries
CrudToolNames(nameSingular, namePlural) ==
    { <<"create", nameSingular>>, <<"get", nameSingular>>,
      <<"update", nameSingular>>, <<"delete", nameSingular>>,
      <<"list", namePlural>> }

\* the object under that plural key has a contract in the registry, its five
\* CRUD tools are in the tool list, and each of them resolves to that contract
Serves(reg, tls, pluralKey, nameSingular, namePlural) ==
    /\ pluralKey \in DOMAIN reg.schemas
    /\ \A name \in CrudToolNames(nameSingular, namePlural) :
           /\ name \in ToolNames(tls)
           /\ resolveObject(reg, name[2]) = pluralKey

ServesCoreObjects(reg, tls) ==
    \A k \in CoreNames : Serves(reg, tls, k, CoreSingular[k], k)

\* C1: after a registry rebuild performed while the loader holds no metadata
\* (the constructor's, and the one of every request whose reload succeeds and
\* reads the JSON document null), the registry has a contract for each of
\* people, companies, notes, tasks and opportunities, and the tools
\* create_/get_/update_/delete_<singular> and list_<plural> of each are listed
\* and resolve to that contract.
C1_FallbackServesCoreObjects ==
    /\ (serverUp = "up" /\ metadata = "none") => ServesCoreObjects(Registry, tools)
    /\ [][ (/\ served' = served + 1
            /\ metaFile.content = "null"
            /\ opsFile.content # "badjson"
            /\ metadata' = "none")
           => ServesCoreObjects([schemas |-> objectSchemas',
                                 aliases |-> objectAliases',
                                 supported |-> supportedObjects'], tools') ]_vars

\* a server whose metadata file was replaced by the document null has rebuilt
\* its registry without metadata, and has accepted list_people on it
C1_Witness ==
    /\ serverUp = "up"
    /\ metadata = "none"
    /\ metaFile = [content |-> "null", sig |-> 2]
    /\ fileStats.metadata = 2
    /\ opsFile.content # "badjson"
    /\ served = 1
    /\ \E s \in RequestSlots :
           /\ calls[s].name = <<"list", "people">>
           /\ calls[s].pc = "await"
           /\ calls[s].reqs[1].endpoint = "/rest/people"

\* C2: in every reachable state of a running server each core object
\* resolves to a registered contract, also when the loaded metadata contains
\* only some of the core objects.
C2_CoreObjectsAlwaysResolve ==
    serverUp = "up" => \A k \in CoreNames : resolveObject(Registry, k) = k

\* the registry is the one a rebuild makes from the metadata the loader holds
RegistryIsRebuilt ==
    /\ serverUp = "up"
    /\ metadata \in ExportIds
    /\ Registry = rebuildRegistry(metadata, tools).reg

\* C3: after a rebuild made with metadata loaded, the registry has a
\* contract and the five CRUD tools for every active object of the export,
\* not only for the core names.
C3_EveryActiveObjectServed ==
    RegistryIsRebuilt =>
        \A i \in 1..Len(ExportObjects(metadata)) :
            ExportObjects(metadata)[i].isActive =>
                Serves(Registry, tools,
                       ToLowerCase(ExportObjects(metadata)[i].namePlural),
                       ExportObjects(metadata)[i].nameSingular,
                       ExportObjects(metadata)[i].namePlural)

-----------------------------------------------------------------------------
(* Refresh before every request: C4 *)

\* the signature of a source file differs from the one last loaded
SignatureDiffers ==
    \/ metaFile.content # "missing" /\ metaFile.sig # fileStats.metadata
    \/ opsFile.content # "absent" /\ opsFile.sig # fileStats.operations
    \/ opsFile.content = "absent" /\ fileStats.operations # 0

\* both source files can be read and parsed, and the metadata has its object
\* list, so that a reload and the rebuild after it succeed
ReloadSucceeds ==
    /\ metaFile.content \notin {"missing", "badjson"}
    /\ opsFile.content # "badjson"
    /\ ~LacksObjectList(ParsedMetadata(metaFile.content))

\* the registry and tool list compiled from the metadata file as it is now
CompiledFromFile == rebuildRegistry(ParsedMetadata(metaFile.content), << >>)

\* The loader holds the files as they are now and the registry is the one
\* compiled from them, with at most the one contract a get_local_object_schema
\* call registers on demand after the refresh; the tool list is the one
\* generated from that registry.
Refreshed(md, stats, reg, tls, compiled) ==
    /\ md = ParsedMetadata(metaFile.content)
    /\ stats = [metadata |-> metaFile.sig,
                operations |-> IF opsFile.content = "absent" THEN 0
                               ELSE opsFile.sig]
    /\ Len(reg.supported) >= Len(compiled.supported)
    /\ Len(reg.supported) <= Len(compiled.supported) + 1
    /\ SubSeq(reg.supported, 1, Len(compiled.supported)) = compiled.supported
    /\ \A k \in DOMAIN compiled.schemas :
           /\ k \in DOMAIN reg.schemas
           /\ reg.schemas[k] = compiled.schemas[k]
    /\ tls = generateToolsFromSchema(reg)

-----------------------------------------------------------------------------
(* Errors and results of a tool call: C5, C6, C7 *)

\* the statuses getErrorHint knows
HintedStatuses == {400, 401, 403, 404, 409, 422, 429, 500, 502, 503}

\* the result is the structured error payload of a non-2xx reply
StructuredError(result, reply) ==
    /\ result.kind = "http"
    /\ result.data.k = "obj"
    /\ {"status", "endpoint", "method", "body", "headers"} \subseteq Keys(result.data.e)
    /\ Get(result.data.e, "status") = Num(reply.status)
    /\ reply.status \in HintedStatuses => Has(result.data.e, "hint")

\* C5: a call whose backend request was answered with a non-2xx status
\* returns the structured error payload (status, endpoint, method, body,
\* headers), with a hint for the statuses 400, 401, 403, 404, 409, 422, 429,
\* 500, 502 and 503.
C5_StatusReplyGivesStructuredError ==
    \A s \in RequestSlots :
        (calls[s].pc = "done" /\ calls[s].failed # Nothing
            /\ calls[s].failed.kind = "status")
        => StructuredError(calls[s].result, calls[s].failed)

\* C6: every tool call ends with returned content: no exception leaves the
\* call handler, the schema refresh and rebuild at its start included.
C6_NoExceptionLeavesTheHandler ==
    \A s \in RequestSlots :
        calls[s].pc = "done" => calls[s].result.kind # "threw"

\* the messages of the resolution errors: unknown object, missing id, missing
\* personId or note, notes contract or join contract absent
ResolutionErrors ==
    { "Error: Unsupported object", "Error: Missing id",
      "Error: personId is required", "Error: note object is required",
      "Error: Notes schema unavailable", "Error: noteTargets schema unavailable" }

\* C7: a tool call that ends in a resolution error has issued no backend
\* request.
C7_ResolutionErrorIssuesNoRequest ==
    \A s \in RequestSlots :
        (calls[s].pc = "done" /\ calls[s].result.kind = "error"
            /\ calls[s].result.message \in ResolutionErrors)
        => Len(calls[s].reqs) = 0

-----------------------------------------------------------------------------
(* The composite note-linking call: C8, C9 *)

IsNoteCall(call) == call.name = <<"create", "note_for_person">>

LinkKeys == {"personId", "companyId", "workspaceMemberId"}

\* the key-value set a link is asked for by an object
PairsOf(entries) ==
    { <<key, ToStr(Get(entries, key))>> :
          key \in {k \in LinkKeys : Has(entries, k) /\ Truthy(Get(entries, k))} }

\* the elements of a sequence in order, each at its first occurrence only
RECURSIVE FirstOccurrences(_)
FirstOccurrences(seq) ==
    LET add(front, last) ==
            IF \E i \in 1..Len(front) : front[i] = last THEN front
            ELSE Append(front, last)
    IN  IF Len(seq) = 0 THEN << >>
        ELSE add(FirstOccurrences(SubSeq(seq, 1, Len(seq) - 1)), seq[Len(seq)])

\* the links the parameters of a composite call ask for, in order: the
\* person, the company when one is given, then the targets in list order,
\* one link per distinct key-value set
WantedLinks(params) ==
    LET person == << {<<"personId", ToStr(Get(params.e, "personId"))>>} >>
        company == IF Truthy(Get(params.e, "companyId"))
                   THEN << {<<"companyId", ToStr(Get(params.e, "companyId"))>>} >>
                   ELSE << >>
        asked(targets) ==
            IF targets.k # "arr" THEN << >>
            ELSE [i \in 1..Len(targets.a) |->
                     IF targets.a[i].k = "obj" THEN PairsOf(targets.a[i].e) ELSE {}]
    IN  FirstOccurrences(person \o company
                           \o SelectSeq(asked(Get(params.e, "targets")),
                                        LAMBDA pairs : pairs # {}))

\* what a request body carries besides the note id
LinkPairs(body) ==
    { <<body[i].key, ToStr(body[i].val)>> :
          i \in {j \in 1..Len(body) : body[j].key # "noteId"} }

\* a key-value set as the sanitizer sends it: identifiers trimmed, blank ones
\* left out
Sent(pairs) ==
    { <<pair[1], Trim(pair[2])>> : pair \in {q \in pairs : Trim(q[2]) # ""} }

IsLinkRequest(request, wanted) ==
    /\ request.endpoint = "/rest/noteTargets"
    /\ request.method = "POST"
    /\ Get(request.body, "noteId") = Str(CreatedId)
    /\ LinkPairs(request.body) = Sent(wanted)

\* the requests of a composite call are the note creation followed by the
\* first links wanted, in their order
InLinkOrder(reqs, wanted) ==
    /\ Len(reqs) <= 1 + Len(wanted)
    /\ Len(reqs) >= 1 =>
           /\ reqs[1].endpoint = "/rest/notes"
           /\ reqs[1].method = "POST"
    /\ \A i \in 2..Len(reqs) : IsLinkRequest(reqs[i], wanted[i - 1])

\* C8: in a composite note-linking call one note-creation request is issued
\* first; the link requests follow only after its response, one at a time,
\* each after the response to the previous one, in the order person link,
\* company link (when companyId is given), then the targets in list order, one
\* request per distinct key-value set, each carrying the id of the created
\* note; a successful call has issued all of them.
C8_NoteThenLinksInOrder ==
    \A s \in RequestSlots :
        IsNoteCall(calls[s]) =>
            /\ Len(calls[s].reqs) <= calls[s].answered + 1
            /\ calls[s].pc = "await" => Len(calls[s].reqs) = calls[s].answered + 1
            /\ InLinkOrder(calls[s].reqs, WantedLinks(calls[s].args))
            /\ (calls[s].pc = "done" /\ calls[s].result.kind = "ok") =>
                   Len(calls[s].reqs) = 1 + Len(WantedLinks(calls[s].args))

\* a composite call given a company and targets that repeat earlier links has
\* succeeded with the note and its three distinct links
C8_Witness ==
    \E s \in RequestSlots :
        /\ IsNoteCall(calls[s])
        /\ calls[s].pc = "done"
        /\ calls[s].result.kind = "ok"
        /\ Get(calls[s].args.e, "targets") = TargetsB
        /\ Len(calls[s].reqs) = 4
        /\ calls[s].answered = 4

\* C9: when a link submission of the composite call fails, the call has
\* returned an error response, no later link request was issued, and the
\* requests it issued are only the note creation and the links before the
\* failure: nothing was deleted or compensated.
C9_LinkFailureStopsTheCall ==
    \A s \in RequestSlots :
        (IsNoteCall(calls[s]) /\ Len(calls[s].reqs) >= 2
            /\ calls[s].failed # Nothing)
        => /\ calls[s].pc = "done"
           /\ calls[s].result.kind \in {"error", "http"}
           /\ Len(calls[s].reqs) = calls[s].answered
           /\ InLinkOrder(calls[s].reqs, WantedLinks(calls[s].args))
           /\ \A i \in 1..Len(calls[s].reqs) : calls[s].reqs[i].method = "POST"

\* the second of three wanted links failed: the call ended there
C9_Witness ==
    \E s \in RequestSlots :
        /\ IsNoteCall(calls[s])
        /\ Len(WantedLinks(calls[s].args)) = 3
        /\ Len(calls[s].reqs) = 3
        /\ calls[s].answered = 3
        /\ calls[s].failed = StatusReply(404)
        /\ calls[s].pc = "done"
        /\ calls[s].result.kind = "error"

-----------------------------------------------------------------------------
(* Sanitized payloads: C10 *)

\* payloads with an id key: alone, beside other keys, as a nested record under
\* a relation, and under a relation that is itself named id
IdPayloads ==
    { Obj(<< E("id", Str("r1")) >>),
      Obj(<< E("id", Num(7)), E("name", Str("N")) >>),
      Obj(<< E("owner", Obj(<< E("id", Str("p1")) >>)), E("id", Str("r1")) >>),
      Obj(<< E("id", Obj(<< E("id", Str("r2")) >>)), E("idId", Str("r3")) >>),
      Obj(<< E("companyId", Str("c1")), E("id", Null) >>) }

\* C10: the output of sanitizePayload has no key named id, for every contract
\* of the registry and every payload, also when a relation is named id and
\* when id is given as a plain key; no request body carries an id.
C10_SanitizedPayloadHasNoId ==
    /\ \A k \in DOMAIN objectSchemas : \A payload \in IdPayloads :
           ~Has(sanitizePayload(payload, objectSchemas[k]), "id")
    /\ \A s \in RequestSlots : \A i \in 1..Len(calls[s].reqs) :
           calls[s].reqs[i].method \in {"POST", "PUT"} =>
               ~Has(calls[s].reqs[i].body, "id")

\* create_pet was called with an id on a contract whose relation is named id,
\* and its request is on its way
C10_Witness ==
    \E s \in RequestSlots :
        /\ calls[s].name = <<"create", "pet">>
        /\ Has(calls[s].args.e, "id")
        /\ calls[s].pc = "await"
        /\ calls[s].reqs[1].method = "POST"
        /\ calls[s].reqs[1].endpoint = "/rest/pets"
        /\ \E i \in 1..Len(objectSchemas["pets"].relationMetadata) :
               objectSchemas["pets"].relationMetadata[i].name = "id"

-----------------------------------------------------------------------------
(* Relation values in payloads: C11, C12 *)

\* sanitizePayload has been applied
Sanitized == probe.fn = "sanitizePayload" /\ probe.applied

\* the relations of a contract
Relations(schema) ==
    {schema.relationMetadata[i] : i \in 1..Len(schema.relationMetadata)}

\* a string that is not empty once trimmed
IsIdString(v) == v.k = "str" /\ Trim(v.s) # ""

\* the values the SINGLE rule accepts
UsableSingle(v) ==
    \/ v.k \in {"null", "num"}
    \/ IsIdString(v)
    \/ v.k = "obj" /\ (IsIdString(Get(v.e, "id")) \/ IsIdString(Get(v.e, "value")))

\* the SINGLE rule: null stays, a string is trimmed, a number is written out,
\* a record gives its id, or else its value
SingleRule(v) ==
    CASE v.k = "null" -> Null
      [] v.k = "num" -> Str(ToString(v.n))
      [] v.k = "str" -> Str(Trim(v.s))
      [] v.k = "obj" /\ IsIdString(Get(v.e, "id")) -> Str(Trim(Get(v.e, "id").s))
      [] OTHER -> Str(Trim(Get(v.e, "value").s))

\* the values the statement calls usable: strings count when they are not empty
UsableAsStated(v) ==
    LET filled(w) == w.k = "str" /\ w.s # ""
    IN  \/ v.k \in {"null", "num"}
        \/ filled(v)
        \/ v.k = "obj" /\ (filled(Get(v.e, "id")) \/ filled(Get(v.e, "value")))

\* C11 as stated: for every relation (name f, alias a) of the contract and
\* every payload with key f, the sanitized output has no key f; a usable
\* value appears under a, and an unusable one adds no key.
C11_FieldNameNeverEmitted ==
    Sanitized =>
      \A r \in Relations(probe.in.schema) :
        Has(probe.in.payload.e, r.name) =>
          /\ ~Has(probe.out.e, r.name)
          /\ UsableAsStated(Get(probe.in.payload.e, r.name)) => Has(probe.out.e, r.alias)
          /\ (~UsableAsStated(Get(probe.in.payload.e, r.name))
                /\ Len(probe.in.payload.e) = 1) => probe.out.e = << >>

\* C11: for every SINGLE relation (name f, alias a) of the contract and every
\* payload with key f and no separate key a: the output has no key f unless a
\* is f; a usable value (null, a string not empty once trimmed, a finite
\* number, a record whose id or value is such a string) appears, normalized,
\* under a, except that a key id is always removed; a payload of the one key
\* f with an unusable value gives the empty output.
C11_RelationEmittedUnderAlias ==
    Sanitized =>
      \A r \in Relations(probe.in.schema) :
        LET f == r.name
            a == r.alias
            payload == probe.in.payload.e
            out == probe.out.e
            v == Get(probe.in.payload.e, r.name)
        IN  (/\ getRelationCardinality(r.relationType) = "single"
             /\ Has(payload, f)
             /\ (a = f \/ ~Has(payload, a))) =>
              /\ a # f => ~Has(out, f)
              /\ ~Has(out, "id")
              /\ (UsableSingle(v) /\ a # "id") => Get(out, a) = SingleRule(v)
              /\ (~UsableSingle(v) /\ Len(payload) = 1) => out = << >>

\* { company: { id: "a" } } sanitized against the compiled people contract
\* gave exactly { companyId: "a" }
C11_Witness ==
    /\ Sanitized
    /\ probe.in.schema = generateToolSchema("full", "people")
    /\ probe.in.payload = Obj(<< E("company", Obj(<< E("id", Str("a")) >>)) >>)
    /\ probe.out = Obj(<< E("companyId", Str("a")) >>)

\* the inputs that clear a MULTIPLE relation
ExplicitClear(v) ==
    \/ v.k = "null"
    \/ v.k = "arr" /\ Len(v.a) = 0
    \/ v.k = "obj" /\ Get(v.e, "ids").k = "arr" /\ Len(Get(v.e, "ids").a) = 0

\* the elements the statement converts: those of the array, of the ids array,
\* or the bare scalar
StatedCandidates(v) ==
    CASE v.k = "arr" -> v.a
      [] v.k = "obj" /\ Get(v.e, "ids").k = "arr" -> Get(v.e, "ids").a
      [] v.k \in {"str", "num"} -> << v >>
      [] OTHER -> << >>

\* the same, and the id of a record that has no ids array
Candidates(v) ==
    IF v.k = "obj" /\ Get(v.e, "ids").k # "arr" /\ Get(v.e, "id").k # "undef"
    THEN << Get(v.e, "id") >>
    ELSE StatedCandidates(v)

\* the ids the SINGLE rule gives for the elements, invalid elements dropped
IdSet(cands) ==
    {SingleRule(cands[i]) : i \in {j \in 1..Len(cands) :
                                     UsableSingle(cands[j]) /\ cands[j].k # "null"}}

\* the output holds under key a a duplicate-free list of exactly the ids, or
\* has no key a when there is no id and the input was no explicit clear
GivesIds(out, a, v, ids) ==
    IF ExplicitClear(v) /\ ids = {} THEN Get(out, a) = Arr(<< >>)
    ELSE IF ids = {} THEN ~Has(out, a)
    ELSE /\ Get(out, a).k = "arr"
         /\ {Get(out, a).a[i] : i \in 1..Len(Get(out, a).a)} = ids
         /\ Len(Get(out, a).a) = Cardinality(ids)

\* the MULTIPLE relations r of the contract that the payload gives once, under
\* key: the field name, or the alias when no other relation has it as its
\* field name (sanitizePayload looks a key up among the field names first)
GivenToMany(r, key) ==
    /\ Sanitized
    /\ r \in Relations(probe.in.schema)
    /\ getRelationCardinality(r.relationType) = "multiple"
    /\ key \in {r.name, r.alias}
    /\ Keys(probe.in.payload.e) \cap {r.name, r.alias} = {key}
    /\ \A other \in Relations(probe.in.schema) : other.name = key => other = r

\* C12 as stated: for a MULTIPLE relation, null, [] and { ids: [] } give [] under
\* the alias; any other input gives the duplicate-free ids of the elements of
\* the array, of the ids array, or of the bare scalar; no id and no explicit
\* clear leaves the alias out.
C12_IdsOfArrayIdsOrScalar ==
    \A schema \in ProbeContracts : \A r \in Relations(schema) :
      \A key \in {r.name, r.alias} :
        GivenToMany(r, key) =>
          GivesIds(probe.out.e, r.alias, Get(probe.in.payload.e, key),
                   IdSet(StatedCandidates(Get(probe.in.payload.e, key))))

\* C12: the same, where a record that has an id and no ids array gives that id,
\* converted like a bare scalar.
C12_IdsOfArrayIdsScalarOrRecord ==
    \A schema \in ProbeContracts : \A r \in Relations(schema) :
      \A key \in {r.name, r.alias} :
        GivenToMany(r, key) =>
          GivesIds(probe.out.e, r.alias, Get(probe.in.payload.e, key),
                   IdSet(Candidates(Get(probe.in.payload.e, key))))

\* { noteTargets: [{ id: "a" }, "b"] } sanitized against a contract with the
\* MULTIPLE relation noteTargets gave { noteTargetsIds: ["a", "b"] }
C12_Witness ==
    /\ Sanitized
    /\ probe.in.schema = LinkedPeopleContract
    /\ probe.in.payload =
         Obj(<< E("noteTargets", Arr(<< Obj(<< E("id", Str("a")) >>), Str("b") >>)) >>)
    /\ probe.out = Obj(<< E("noteTargetsIds", Arr(<< Str("a"), Str("b") >>)) >>)

-----------------------------------------------------------------------------
(* Link values: C13 *)

\* the three keys of a link record
LinkRecordKeys == {"primaryLinkUrl", "primaryLinkLabel", "secondaryLinks"}

\* C13: normalizeLinksValue applied to its own result gives that result; a
\* record with any of the three link keys comes back unchanged; a string s
\* comes back as { primaryLinkUrl: s trimmed, primaryLinkLabel: "",
\* secondaryLinks: null }; and sanitizePayload gives, under every key of the
\* payload that is a LINKS field of the contract, the normalized value.
C13_LinkNormalizationIdempotent ==
    /\ (probe.fn = "normalizeLinksValue" /\ probe.applied) =>
         /\ normalizeLinksValue(probe.out) = probe.out
         /\ (probe.in.value.k = "obj"
               /\ Keys(probe.in.value.e) \cap LinkRecordKeys # {}) =>
                  probe.out = probe.in.value
         /\ probe.in.value.k = "str" =>
              probe.out = Obj(<< E("primaryLinkUrl", Str(Trim(probe.in.value.s))),
                                 E("primaryLinkLabel", Str("")),
                                 E("secondaryLinks", Null) >>)
    /\ Sanitized =>
         \A key \in getLinksFieldNames(probe.in.schema) \cap Keys(probe.in.payload.e) :
             Get(probe.out.e, key) = normalizeLinksValue(Get(probe.in.payload.e, key))

\* a string with a space before it was normalized to a link record, and
\* normalizing that record again changed nothing
C13_Witness ==
    /\ probe.fn = "normalizeLinksValue"
    /\ probe.applied
    /\ probe.in.value = Str(" p1")
    /\ probe.out = Obj(<< E("primaryLinkUrl", Str("p1")), E("primaryLinkLabel", Str("")),
                          E("secondaryLinks", Null) >>)
    /\ normalizeLinksValue(probe.out) = probe.out

-----------------------------------------------------------------------------
(* The composite tool and the registry: C14 *)

\* C14: the tools hold create_note_for_person exactly when the registry holds
\* the contracts of notes and of noteTargets, in every state: after the
\* constructor, after every rebuild, after a contract was registered on demand
\* and after a rebuild that removed it.
C14_CompositeToolIffBothContracts ==
    (<<"create", "note_for_person">> \in ToolNames(tools))
        <=> ({"notes", "notetargets"} \subseteq DOMAIN objectSchemas)

-----------------------------------------------------------------------------
(* The fallback registry: C15, C16 *)

\* the registry is the one a rebuild makes on its fallback path: without
\* metadata, or with metadata none of whose core objects compiled
RegistryIsFallback ==
    /\ serverUp = "up"
    /\ metadata \in {"none", "customOnly"}
    /\ Registry = rebuildRegistry(metadata, tools).reg

\* the contract is the join object of notes, with its three SINGLE relations
IsJoinContract(schema) ==
    \A name \in {"note", "person", "company"} :
        \E r \in {schema.relationMetadata[i] : i \in 1..Len(schema.relationMetadata)} :
            /\ r.name = name
            /\ getRelationCardinality(r.relationType) = "single"

\* C15: a registry rebuilt on the fallback path holds, besides people,
\* companies, notes, tasks and opportunities, the noteTargets contract with
\* its relations to note, person and company.
C15_FallbackHoldsJoinObject ==
    RegistryIsFallback =>
        /\ CoreNames \subseteq DOMAIN objectSchemas
        /\ "notetargets" \in DOMAIN objectSchemas
        /\ IsJoinContract(objectSchemas["notetargets"])

\* C16: the constructor run on a metadata file that is missing, is not JSON,
\* or is JSON without the object list, completes, and leaves for every core
\* object its fallback contract in the registry.
C16_ConstructorFallsBack ==
    (/\ changes = 0
     /\ served = 0
     /\ metaFile.content \in {"missing", "badjson", "noobjects"}) =>
        /\ serverUp = "up"
        /\ \A i \in 1..Len(getCoreObjects) :
               /\ ToLowerCase(getCoreObjects[i]) \in DOMAIN objectSchemas
               /\ objectSchemas[ToLowerCase(getCoreObjects[i])] =
                      FallbackSchema(getCoreObjects[i])

-----------------------------------------------------------------------------
(* List results without records: C17 *)

\* buildListPayload has been applied to a response in which neither the
\* response nor its data, items or records is an array
NoRecordArray ==
    /\ probe.fn = "buildListPayload"
    /\ probe.applied
    /\ probe.in.response.k # "arr"
    /\ \A key \in {"data", "items", "records"} : Prop(probe.in.response, key).k # "arr"

\* the keys under which a response carries pagination
PaginationSources ==
    {"pageInfo", "meta"} \cup {paginationKeys[i] : i \in 1..Len(paginationKeys)}

\* C17 as stated: a response without a record array is returned itself, with
\* no wrapper, also when it is an object that carries pagination keys.
C17_NoRecordsReturnsResponse ==
    NoRecordArray => probe.out = probe.in.response

\* C17: a response without a record array that is null, a string, a number or
\* a boolean is returned itself; one that is an object is returned under the
\* key raw of a wrapper that has no items, has pagination and summary only
\* together, and has nothing else when the response carries no pagination.
C17_NoRecordsWrapsObjects ==
    NoRecordArray =>
        IF probe.in.response.k # "obj" THEN probe.out = probe.in.response
        ELSE /\ probe.out.k = "obj"
             /\ Get(probe.out.e, "raw") = probe.in.response
             /\ Keys(probe.out.e) \in {{"raw"}, {"raw", "pagination", "summary"}}
             /\ Keys(probe.in.response.e) \cap PaginationSources = {} =>
                    probe.out = Obj(<< E("raw", probe.in.response) >>)

\* an object with pagination keys and no records came back wrapped
C17_Witness ==
    /\ NoRecordArray
    /\ probe.in.response = Obj(<< E("total", Num(3)), E("nextCursor", Str("b")) >>)
    /\ Get(probe.out.e, "raw") = probe.in.response
    /\ Get(Get(probe.out.e, "summary").e, "total") = Num(3)
    /\ Get(Get(probe.out.e, "summary").e, "hasNextPage") = Bool(TRUE)

-----------------------------------------------------------------------------
(* Writable properties of the create and update tools: C18 *)

\* the fields the backend manages
SystemManaged ==
    {"createdAt", "updatedAt", "deletedAt", "createdBy", "updatedBy", "position"}

\* the tool of that name among tls
ToolNamed(tls, name) == tls[CHOOSE i \in 1..Len(tls) : tls[i].name = name]

\* C18: for every contract of the registry, the properties of its create tool
\* and, apart from id, of its update tool hold no system-managed field, and
\* the create tool requires exactly the required fields of the contract that
\* are among its properties; also for a contract all of whose properties are
\* system-managed.
C18_ToolsOmitSystemManagedFields ==
    (probe.fn = "generateToolsFromSchema" /\ probe.applied) =>
      \A i \in 1..Len(probe.in.reg.supported) :
        LET schema == probe.in.reg.supported[i]
            create == ToolNamed(probe.out, <<"create", probe.in.reg.supported[i].nameSingular>>)
            update == ToolNamed(probe.out, <<"update", probe.in.reg.supported[i].nameSingular>>)
        IN  /\ create.properties \cap SystemManaged = {}
            /\ (update.properties \ {"id"}) \cap SystemManaged = {}
            /\ create.required =
                 SelectSeq(schema.required, LAMBDA f : f \in create.properties)

-----------------------------------------------------------------------------
(* Relations to many in compiled contracts: C19 *)

\* the alias of a relation to many: the name itself when it ends in Ids
AliasToMany(name) == IF EndsWithIds(name) THEN name ELSE PlusIds(name)

\* the contract has the relation to many of that field: a descriptor with the
\* alias, an array property under the alias, and sanitizePayload converts a
\* payload keyed by the field name to the alias
HasRelationToMany(schema, field) ==
    /\ \E r \in Relations(schema) :
           /\ r.name = field.name
           /\ r.alias = AliasToMany(field.name)
           /\ getRelationCardinality(r.relationType) = "multiple"
    /\ Has(schema.properties, AliasToMany(field.name))
    /\ Get(schema.properties, AliasToMany(field.name)).type = "array"
    /\ sanitizePayload(Obj(<< E(field.name,
                                Arr(<< Obj(<< E("id", Str("a")) >>), Str("b") >>)) >>),
                       schema)
         = << E(AliasToMany(field.name), Arr(<< Str("a"), Str("b") >>)) >>

\* C19: in a registry rebuilt from an export, the contract of an object has,
\* for every active non-system RELATION field of type ONE_TO_MANY or
\* MANY_TO_MANY, the relation under the alias <name>Ids with its array
\* property, and has no relation for a field of an unrecognized relation type.
C19_RelationsToManyAreCompiled ==
    RegistryIsRebuilt =>
      \A k \in DOMAIN objectSchemas :
        LET object == getObjectByName(metadata, k)
            fieldsOf(o) ==
                {o.fields[i] : i \in {j \in 1..Len(o.fields) :
                    /\ o.fields[j].isActive
                    /\ ~o.fields[j].isSystem
                    /\ o.fields[j].type = "RELATION"}}
        IN  object # Nothing =>
              \A field \in fieldsOf(object) :
                /\ field.rel \in {"ONE_TO_MANY", "MANY_TO_MANY"} =>
                       HasRelationToMany(objectSchemas[k], field)
                /\ field.rel \notin {"ONE_TO_MANY", "MANY_TO_MANY", "MANY_TO_ONE",
                                     "ONE_TO_ONE"} =>
                       \A r \in Relations(objectSchemas[k]) : r.name # field.name

-----------------------------------------------------------------------------
(* Relation aliases: C20 *)

\* getRelationAlias has been applied to a field of that cardinality
AliasDerived(cardinality) ==
    /\ probe.fn = "getRelationAlias"
    /\ probe.applied
    /\ getRelationCardinality(probe.in.rel) = cardinality

-----------------------------------------------------------------------------
(* Registration of contracts: C21 *)

\* the key a contract is stored under
PluralKey(schema) == ToLowerCase(schema.namePlural)

\* C21: after the contracts of a sequence were registered in order, the
\* contract stored under the plural key of each, compared in lower case, is
\* the first of the sequence with that key; and registering a contract whose
\* key is already held changes neither the contracts, nor the aliases, nor the
\* supported objects.
C21_FirstRegistrationWins ==
    (probe.fn = "registerObjectSchema" /\ probe.applied) =>
      LET all == Append(probe.in.before, probe.in.schema)
          first(i) == CHOOSE j \in 1..Len(all) :
                        /\ PluralKey(all[j]) = PluralKey(all[i])
                        /\ \A h \in 1..(j - 1) : PluralKey(all[h]) # PluralKey(all[i])
      IN  /\ DOMAIN probe.out.schemas = {PluralKey(all[i]) : i \in 1..Len(all)}
          /\ \A i \in 1..Len(all) :
                 probe.out.schemas[PluralKey(all[i])] = all[first(i)]
          /\ (\E i \in 1..Len(probe.in.before) :
                  PluralKey(probe.in.before[i]) = PluralKey(probe.in.schema))
               => probe.out = probe.in.reg

\* the compiled people contract was registered, then notes, then a different
\* contract named People: the registry did not change and still holds the
\* compiled one
C21_Witness ==
    /\ probe.fn = "registerObjectSchema"
    /\ probe.applied
    /\ probe.in.before = << generateToolSchema("full", "people"),
                            generateToolSchema("full", "notes") >>
    /\ probe.in.schema = [FallbackSchema("people") EXCEPT !.namePlural = "People"]
    /\ probe.out = probe.in.reg
    /\ probe.out.schemas["people"] = generateToolSchema("full", "people")
    /\ Len(probe.out.supported) = 2

-----------------------------------------------------------------------------
(* Rebuilds: C22, C23, C24 *)

\* the request accepted in this step reloads the export and rebuilds the
\* registry
RebuildRuns ==
    /\ served' = served + 1
    /\ metadata = "none" \/ hasSchemaChanged(metadata, fileStats, metaFile, opsFile)
    /\ loadSchemas(metadata, operations, fileStats, metaFile, opsFile).ok

\* reg and tls are what a rebuild from nothing has made, with at most the one
\* contract the request itself registers on demand after it
MadeFromNothing(reg, tls, fresh) ==
    /\ Len(reg.supported) \in {Len(fresh.reg.supported), Len(fresh.reg.supported) + 1}
    /\ SubSeq(reg.supported, 1, Len(fresh.reg.supported)) = fresh.reg.supported
    /\ \A k \in DOMAIN fresh.reg.schemas :
           /\ k \in DOMAIN reg.schemas
           /\ reg.schemas[k] = fresh.reg.schemas[k]
    /\ Len(reg.supported) = Len(fresh.reg.supported) => reg = fresh.reg
    /\ tls = generateToolsFromSchema(reg)

\* C22: the registry and the tool list a rebuild leaves are those a rebuild
\* from an empty registry and an empty tool list makes of the metadata the
\* loader holds: nothing of the registry or the tool list before the rebuild
\* is left, contracts registered on demand included.
C22_RebuildDependsOnMetadataOnly ==
    [][ RebuildRuns =>
          \E fresh \in {rebuildRegistry(metadata', << >>)} :
              MadeFromNothing([schemas |-> objectSchemas', aliases |-> objectAliases',
                               supported |-> supportedObjects'], tools', fresh) ]_vars

\* C23: whatever handler runs next, and wherever the calls in flight are
\* suspended, the registry it reads is whole: it is not empty, its contracts,
\* aliases and supported objects agree, and the tool list is the one generated
\* from it.
C23_NoHalfRebuiltRegistry ==
    serverUp = "up" =>
        /\ Len(supportedObjects) > 0
        /\ DOMAIN objectSchemas = {PluralKey(supportedObjects[i]) :
                                      i \in 1..Len(supportedObjects)}
        /\ \A k \in DOMAIN objectAliases : objectAliases[k] \in DOMAIN objectSchemas
        /\ tools = generateToolsFromSchema(Registry)

\* the registry or the tool list changes in this step
RegistryChanges ==
    \/ objectSchemas' # objectSchemas
    \/ objectAliases' # objectAliases
    \/ supportedObjects' # supportedObjects
    \/ tools' # tools

RegistersOnDemand(reg, tls) ==
    /\ \E s \in RequestSlots : calls'[s].name = <<"get", "local_object_schema">>
    /\ Len(reg.supported) = Len(supportedObjects) + 1
    /\ SubSeq(reg.supported, 1, Len(supportedObjects)) = supportedObjects
    /\ PluralKey(reg.supported[Len(reg.supported)]) \notin DOMAIN objectSchemas
    /\ DOMAIN reg.schemas =
           DOMAIN objectSchemas \cup {PluralKey(reg.supported[Len(reg.supported)])}
    /\ \A k \in DOMAIN objectSchemas : reg.schemas[k] = objectSchemas[k]
    /\ \A k \in DOMAIN objectAliases : k \in DOMAIN reg.aliases
    /\ tls = generateToolsFromSchema(reg)

-----------------------------------------------------------------------------
(* Alias properties of a compiled contract: C25 *)

\* the fields of the object that take part in the contract and have this name
DeclaredAs(object, name) ==
    {i \in 1..Len(getObjectFields(object)) : getObjectFields(object)[i].name = name}

\* C25: in the contract compiled from an object, whatever the order of its
\* fields, the alias of every relation descriptor is a key of properties: the
\* property is the injected one, a string for a relation to one and an array
\* for a relation to many, when no field of the contract has the name of the
\* alias, and it is the property of the declared field when one has; the
\* descriptor carries the alias in both cases.
C25_AliasIsAlwaysAProperty ==
    (probe.fn = "generateToolSchema" /\ probe.applied) =>
      LET fields == getObjectFields(probe.in.object)
          relating == SelectSeq(fields, LAMBDA f : f.type = "RELATION")
          rels == probe.out.relationMetadata
      IN  /\ Len(rels) = Len(relating)
          /\ \A i \in 1..Len(rels) :
               /\ rels[i].name = relating[i].name
               /\ rels[i].alias = getRelationAlias(relating[i])
               /\ rels[i].alias # ""
               /\ Has(probe.out.properties, rels[i].alias)
               /\ DeclaredAs(probe.in.object, rels[i].alias) = {} =>
                    Get(probe.out.properties, rels[i].alias) =
                        Property(IF rels[i].relationType \in {"MANY_TO_ONE", "ONE_TO_ONE"}
                                 THEN "string" ELSE "array", "alias")
               /\ \A j \in DeclaredAs(probe.in.object, rels[i].alias) :
                    Get(probe.out.properties, rels[i].alias) =
                        Property(buildFieldProperty(fields[j]), "field")

\* the relation owner is compiled before the number field ownerId that has the
\* name of its alias: the property ownerId is the one of the field, and the
\* alias companyId of the relation company was injected
C25_Witness ==
    /\ probe.fn = "generateToolSchema"
    /\ probe.applied
    /\ [i \in 1..Len(probe.in.object.fields) |-> probe.in.object.fields[i].name]
           = << "owner", "ownerId", "company" >>
    /\ Get(probe.out.properties, "ownerId") = Property("number", "field")
    /\ Get(probe.out.properties, "companyId") = Property("string", "alias")
    /\ Len(probe.out.relationMetadata) = 2

-----------------------------------------------------------------------------
(* The composite call and the registry: C26 *)

\* a create_note_for_person call has sanitized its note with the notes
\* contract and waits for the answer to the note creation; it reads the join
\* contract when the answer arrives
NoteCreationAwaited(s) ==
    /\ calls[s].name = <<"create", "note_for_person">>
    /\ calls[s].pc = "await"
    /\ calls[s].cont.stage = "note"

\* C26: within one create_note_for_person call the notes contract and the
\* join contract are read from the same registry: while the call waits for
\* the answer to the note creation, no step of another request rebuilds or
\* otherwise changes the registry.
C26_CompositeCallSeesOneRegistry ==
    [][ (\E s \in RequestSlots : NoteCreationAwaited(s)) =>
            /\ objectSchemas' = objectSchemas
            /\ objectAliases' = objectAliases
            /\ supportedObjects' = supportedObjects ]_vars

-----------------------------------------------------------------------------
(* Tool names and dispatch: C27 *)

\* the contract the tool listed at this place was synthesized from: the loop
\* of generateToolsFromSchema pushes five tools for each supported contract
SynthesizedFrom(reg, place) == reg.supported[((place - 1) \div 5) + 1]

\* the endpoint of the request handleCRUDOperation sends for a contract
SentFor(request, schema) ==
    request.endpoint \in {"/rest/" \o schema.namePlural,
                          "/rest/" \o schema.namePlural \o "/r1"}

\* C27: every listed CRUD tool name, when called, is dispatched to the
\* contract it was synthesized from, and its name is listed once, also when
\* two registered objects share a singular name or a label in lower case and
\* when a CRUD tool name is the name of a cross-cutting tool.
C27_ToolsDispatchToTheirContract ==
    (probe.fn = "callTool" /\ probe.applied) =>
      LET tls == generateToolsFromSchema(probe.in.reg)
      IN  /\ probe.out.pc = "await"
          /\ SentFor(probe.out.request, SynthesizedFrom(probe.in.reg, probe.in.tool))
          /\ \A j \in 1..Len(tls) :
                 tls[j].name = tls[probe.in.tool].name => j = probe.in.tool

-----------------------------------------------------------------------------
(* The registry and the loader's metadata: C28 *)

\* the contract is the stand-in buildFallbackRegistry registers for its name
IsFallbackContract(schema) == schema = FallbackSchema(schema.namePlural)

\* what the loader compiles now for the name of the contract
CompiledNow(schema) ==
    IF metadata = "none" \/ LacksObjectList(metadata) THEN Nothing
    ELSE generateToolSchema(metadata, schema.namePlural)

\* C28: after every handled request, every contract of the registry that was
\* compiled from metadata is the compilation of the metadata the loader holds
\* now; a reload that reads new metadata and then fails on the operation
\* catalog does not leave the new metadata with the old registry.
C28_ContractsMatchLoaderMetadata ==
    serverUp = "up" =>
        \A k \in DOMAIN objectSchemas :
            \/ IsFallbackContract(objectSchemas[k])
            \/ objectSchemas[k] = CompiledNow(objectSchemas[k])

-----------------------------------------------------------------------------
(* The link requests of the composite call: C29 *)

\* the link requests a call has submitted so far
LinkRequests(call) ==
    SelectSeq(call.reqs, LAMBDA r : r.endpoint = "/rest/noteTargets")

\* C29: every link request create_note_for_person submits carries, after
\* sanitization, noteId and at least one of personId, companyId and
\* workspaceMemberId, whatever personId, companyId and targets were accepted.
C29_LinkRequestsCarryNoteAndTarget ==
    \A s \in RequestSlots :
        calls[s].name = <<"create", "note_for_person">> =>
            \A i \in 1..Len(LinkRequests(calls[s])) :
                /\ Has(LinkRequests(calls[s])[i].body, "noteId")
                /\ \E key \in {"personId", "companyId", "workspaceMemberId"} :
                       Has(LinkRequests(calls[s])[i].body, key)

-----------------------------------------------------------------------------
(* Sanitizing twice: C30 *)

\* every relation descriptor of the contract is to one or to many and carries
\* the alias getRelationAlias derives from its field name
AliasesDerived(schema) ==
    \A r \in Relations(schema) :
        /\ getRelationCardinality(r.relationType) # ""
        /\ r.alias = getRelationAlias(RelationField(r.name, r.relationType))

\* the alias of one relation is the field name of another relation
AliasNamesRelation(schema) ==
    \E r \in Relations(schema), other \in Relations(schema) :
        r.name # other.name /\ r.alias = other.name

\* the alias of one relation is the field name of a relation of the other
\* cardinality
AliasNamesOtherCardinality(schema) ==
    \E r \in Relations(schema), other \in Relations(schema) :
        /\ r.alias = other.name
        /\ getRelationCardinality(r.relationType)
               # getRelationCardinality(other.relationType)

\* C30 as stated: sanitizing a sanitized payload gives it again, for every
\* payload and every contract whose descriptors carry derived aliases, also
\* when the alias of one relation is the field name of another relation.
C30_SanitizeIdempotent ==
    (Sanitized /\ AliasesDerived(probe.in.schema)) =>
        sanitizePayload(probe.out, probe.in.schema) = probe.out.e

\* C30: sanitizing a sanitized payload gives it again, for every payload and
\* every contract whose descriptors carry derived aliases, also when the alias
\* of one relation is the field name of another relation of the same
\* cardinality; not when it is the field name of a relation of the other
\* cardinality.
C30_SanitizeIdempotentWithinCardinality ==
    (Sanitized /\ AliasesDerived(probe.in.schema)
       /\ ~AliasNamesOtherCardinality(probe.in.schema)) =>
        sanitizePayload(probe.out, probe.in.schema) = probe.out.e

\* { owner: { id: " p1", value: "b" } } sanitized against the contract whose
\* relations to one are owner and ownerId gave { ownerId: "p1" }, which the
\* second pass reads as the relation named ownerId
C30_Witness ==
    /\ Sanitized
    /\ AliasesDerived(probe.in.schema)
    /\ AliasNamesRelation(probe.in.schema)
    /\ ~AliasNamesOtherCardinality(probe.in.schema)
    /\ probe.in.payload =
           Obj(<< E("owner", Obj(<< E("id", Str(" p1")), E("value", Str("b")) >>)) >>)
    /\ probe.out = Obj(<< E("ownerId", Str("p1")) >>)

=============================================================================
